---- MODULE Spec2Model ----
(***************************************************************************)
(* Focus Process Stack Manager of kaia-guardrails                          *)
(* (hooks/implementation/focus_process_manager.py) together with the git   *)
(* repository it drives through subprocess calls.                          *)
(*                                                                         *)
(* The persisted stack file is the variable `file` and the repository is   *)
(* the variable `git`.  Every public operation is an operator from the     *)
(* state, its arguments and the outcomes of the commands it runs to the    *)
(* state it leaves, its return value (ok) and what happened during the     *)
(* call (events); the actions apply these operators.                       *)
(*                                                                         *)
(* current-process.txt, the remote-push timing file and the audit fields   *)
(* an escape writes into circular_dependency_tracker                       *)
(* (escape_hatch_triggered, escape_reason, escape_levels,                  *)
(* pre_escape_commit) are written by these operations and read by none of  *)
(* them; they are left out, as is the remote repository.  Of last_escape,  *)
(* which the override usage tracker reads, the reason is kept.             *)
(*                                                                         *)
(* Every git command is fallible: besides the failures git itself decides  *)
(* (checkout of a missing branch, checkout -b of an existing one,          *)
(* commit with nothing staged, branch -d of an unmerged branch) each       *)
(* command takes an outcome flag chosen by the environment.                *)
(* git rev-parse HEAD is taken to succeed (the repository always holds the *)
(* initial commit).  Timestamps (started_at, last_updated, timestamp) are  *)
(* not modelled, and the reason of an escape is one of two texts.          *)
(*                                                                         *)
(* The hook orchestrator (hooks/orchestrator.py, hooks/loader.py) is the   *)
(* variable `batch`: the hooks found in the three sources, the list        *)
(* discover_hooks makes of them, and the progress of one run_all over that *)
(* list.  What hook.run does is an outcome chosen by the environment: it   *)
(* returns, raises HookError, raises another Exception, or raises          *)
(* SystemExit (the hooks of hooks/implementation call sys.exit(1) to       *)
(* block).                                                                 *)
(*                                                                         *)
(* The override usage tracker (hooks/implementation/                       *)
(* override_usage_tracker.py) is the variable `tracker`: the content of    *)
(* override_usage.json, the two override variables of the process          *)
(* environment, and what the last track_override_usage returned.  The      *)
(* clock is not modelled: whether 24 hours have passed since the last use  *)
(* and how old the last_escape of the stack file (when it has one) is are  *)
(* chosen by the environment at each call, as are the presence of the log  *)
(* directory and                                                           *)
(* the outcome of writing the file.  The branch the tracker looks at is    *)
(* the current branch of `git`.                                            *)
(* The git operations guard (hooks/implementation/                         *)
(* git_operations_guard.py) is modelled from the point where it has found  *)
(* a dangerous git operation in a Bash command.                            *)
(*                                                                         *)
(* find_semantic_escape_target is an operator over the stack file; the     *)
(* age of the last commit of an entry is chosen by the environment, and a  *)
(* reason is the set of focus ids that occur in it.                        *)
(*                                                                         *)
(* Invocations that overlap are the variable `calls`: per process the      *)
(* operation it is in and the copy of the stack it has loaded.  An         *)
(* invocation is two steps there, its load_focus_stack and everything that *)
(* follows up to its save_focus_stack; where invocations do not overlap    *)
(* `calls` stays empty and an operation is one step.                       *)
(***************************************************************************)
EXTENDS Integers, Sequences, FiniteSets, TLC

VARIABLES git, file, batch, tracker, calls

vars == <<git, file, batch, tracker, calls>>

-----------------------------------------------------------------------------
(* Bounds *)

\* commits made on top of the initial commit 0
MaxCommits == 1

\* commits made on top of the initial commit when a single focus id is used
SoloCommits == 4

\* commits made on top of the initial commit when only the stack is followed
StackCommits == 0

\* longest dependency_chain recorded by rejected pushes
MaxChain == 1

-----------------------------------------------------------------------------
(* Values *)

\* Python None / "" for a focus id, a branch name, a description (all falsy)
NoFocus == <<>>
NoBranch == <<>>
NoCommit == -1

\* focus ids are strings, kept as sequences of characters so that
\* str.replace can be computed
FocusIds == { <<"x">>, <<"p", "_", "q">> }

\* the description given with a focus id
DescriptionOf(id) == <<"about">> \o id

Main == <<"main">>

\* focus_id.replace('_', '-')
Replace(s) == [i \in 1..Len(s) |-> IF s[i] = "_" THEN "-" ELSE s[i]]

\* f"focus/{focus_id.replace('_', '-')}"
BranchNameFor(id) == <<"focus/">> \o Replace(id)

Branches == {Main} \cup { BranchNameFor(id) : id \in FocusIds }

Last(s) == s[Len(s)]
Front(s) == SubSeq(s, 1, Len(s) - 1)

-----------------------------------------------------------------------------
(* The git repository: current branch, branch tips, ancestry of commits *)

\* history of a branch: the commits reachable from its tip
BranchHistory(g, b) == IF g.tip[b] = NoCommit THEN {} ELSE g.hist[g.tip[b]]

BranchExists(g, b) == b \in Branches /\ g.tip[b] # NoCommit

\* git rev-parse HEAD
GetCurrentGitCommit(g) == g.tip[g.head]

\* the repository can take one more commit
CanCommit(g) == g.room > 0

\* a new commit on the current branch whose parents' histories are `parents`
NewCommit(g, parents) ==
    [g EXCEPT !.hist = [c \in 0..g.n |-> IF c = g.n THEN parents \cup {g.n}
                                         ELSE g.hist[c]],
              !.tip[g.head] = g.n,
              !.n = g.n + 1,
              !.room = g.room - 1]

\* git checkout -B <branch>: an existing branch is taken over
CreateGitBranchForced(g, b, ok) ==
    IF ok /\ b \in Branches
    THEN [g |-> [g EXCEPT !.tip[b] = g.tip[g.head], !.head = b], ok |-> TRUE]
    ELSE [g |-> g, ok |-> FALSE]

\* git checkout -b <branch>
CreateGitBranch(g, b, ok) ==
    IF ok /\ b \in Branches /\ g.tip[b] = NoCommit
    THEN [g |-> [g EXCEPT !.tip[b] = g.tip[g.head], !.head = b], ok |-> TRUE]
    ELSE [g |-> g, ok |-> FALSE]

\* git checkout <branch>; a None argument raises inside subprocess.run
SwitchGitBranch(g, b, ok) ==
    IF ok /\ b # NoBranch /\ BranchExists(g, b)
    THEN [g |-> [g EXCEPT !.head = b], ok |-> TRUE]
    ELSE [g |-> g, ok |-> FALSE]

\* git add . ; git commit -m <message>; ok: there was something to commit
\* and git committed it
AutoCommitChanges(g, ok) ==
    IF ok /\ CanCommit(g)
    THEN [g |-> NewCommit(g, BranchHistory(g, g.head)), ok |-> TRUE]
    ELSE [g |-> g, ok |-> FALSE]

\* git reset --hard <commit>
RevertToGitCommit(g, c, ok) ==
    IF ok /\ c # NoCommit
    THEN [g |-> [g EXCEPT !.tip[g.head] = c], ok |-> TRUE]
    ELSE [g |-> g, ok |-> FALSE]

\* git merge --squash <source> ; git commit -m <message>
\* the commit has something to record only if the source holds commits the
\* current branch does not
SquashMergeBranch(g, src, ok) ==
    IF ~(ok /\ BranchExists(g, src))
    THEN [g |-> g, ok |-> FALSE]
    ELSE IF CanCommit(g)
               /\ ~(BranchHistory(g, src) \subseteq BranchHistory(g, g.head))
         THEN [g |-> NewCommit(g, BranchHistory(g, g.head)), ok |-> TRUE]
         ELSE [g |-> g, ok |-> FALSE]

\* git merge --no-ff -m <message> <source>
MergeBranch(g, src, ok) ==
    IF ~(ok /\ BranchExists(g, src))
    THEN [g |-> g, ok |-> FALSE]
    ELSE IF BranchHistory(g, src) \subseteq BranchHistory(g, g.head)
         THEN [g |-> g, ok |-> TRUE]
         ELSE IF ~CanCommit(g)
         THEN [g |-> g, ok |-> FALSE]
         ELSE [g |-> NewCommit(g, BranchHistory(g, g.head) \cup BranchHistory(g, src)),
               ok |-> TRUE]

\* git branch -d <branch>: refuses the current branch and a branch whose tip
\* is not merged into HEAD
DeleteMergedBranch(g, b, ok) ==
    IF ok /\ BranchExists(g, b) /\ b # g.head
          /\ g.tip[b] \in BranchHistory(g, g.head)
    THEN [g |-> [g EXCEPT !.tip[b] = NoCommit], ok |-> TRUE]
    ELSE [g |-> g, ok |-> FALSE]

-----------------------------------------------------------------------------
(* The persisted focus stack *)

\* no last_escape in the stack file
NoLastEscape == ""

\* focus-process-stack.json holds what save_focus_stack wrote, or it is
\* missing, or it is not JSON, or it is JSON that is not a stack ({} or null)
NoDamage == ""
Damages == {"absent", "unreadable", "not a stack"}

CreateEmptyStack ==
    [ current_focus |-> NoFocus,
      description |-> <<>>,
      focus_process_stack |-> <<>>,
      detected |-> FALSE,
      dependency_chain |-> <<>>,
      last_escape |-> NoLastEscape,
      damage |-> NoDamage ]

\* a file that holds no stack
DamagedFile(d) == [CreateEmptyStack EXCEPT !.damage = d]

\* load_focus_stack: the empty stack for a missing file and for one json.load
\* rejects, and otherwise what json.load returns
LoadFocusStack(f) ==
    IF f.damage \in {"absent", "unreadable"} THEN CreateEmptyStack ELSE f

\* stack["focus_process_stack"] raises KeyError or TypeError on a value that
\* is not a stack
Subscriptable(stack) == stack.damage = NoDamage

\* save_focus_stack: the file is replaced, or left as it was when the write fails
SaveFocusStack(old, new, ok) == IF ok THEN new ELSE old

\* a check that looks at the current focus only
DetectTopOnly(stack, id) ==
    stack # <<>> /\ Last(stack).focus_id = id

\* new_focus_id in [process["focus_id"] for process in stack]
DetectCircularDependency(stack, id) ==
    \E i \in 1..Len(stack) : stack[i].focus_id = id

SaveFailed(ok) == IF ok THEN {} ELSE {"save"}

\* what a call leaves: the repository, the stack file, the return value and
\* the events of the call (the git commands and writes that returned a
\* failure, the reason of an early return, the merge strategy that ran)
Result(g, f, ok, events) == [ git |-> g, file |-> f, ok |-> ok, events |-> events ]

\* a call that ended with an exception: nothing was written
Raised(g, f) == Result(g, f, FALSE, {"raised"})

\* the outcome o of an operation on the stack loaded from the file f: an
\* operation that saved nothing leaves the file f itself
OnFile(f, o) ==
    [o EXCEPT !.file = IF o.file = LoadFocusStack(f) THEN f ELSE o.file]

-----------------------------------------------------------------------------
(* push_focus_process *)

\* values of auto_commit tried (the default)
AutoCommitArgs == {TRUE}

PushEnv == [ branchOk : BOOLEAN, saveOk : BOOLEAN ]

\* an entry that names a branch whether or not one was asked for
NewFocusNamingBranch(stack, id, create_branch, auto_commit, git_commit) ==
    [ focus_id |-> id,
      description |-> DescriptionOf(id),
      branch_name |-> BranchNameFor(id),
      parent_focus |-> stack.current_focus,
      git_commit_before |-> git_commit,
      requires_git_branching |-> create_branch,
      auto_commit_on_edit |-> auto_commit,
      commit_history |-> <<>> ]

\* an entry that names no parent
NewFocusWithoutParent(stack, id, create_branch, auto_commit, git_commit) ==
    [ focus_id |-> id,
      description |-> DescriptionOf(id),
      branch_name |-> IF create_branch THEN BranchNameFor(id) ELSE NoBranch,
      parent_focus |-> NoFocus,
      git_commit_before |-> git_commit,
      requires_git_branching |-> create_branch,
      auto_commit_on_edit |-> auto_commit,
      commit_history |-> <<>> ]

NewFocus(stack, id, create_branch, auto_commit, git_commit) ==
    [ focus_id |-> id,
      description |-> DescriptionOf(id),
      branch_name |-> IF create_branch THEN BranchNameFor(id) ELSE NoBranch,
      parent_focus |-> stack.current_focus,
      git_commit_before |-> git_commit,
      requires_git_branching |-> create_branch,
      auto_commit_on_edit |-> auto_commit,
      commit_history |-> <<>> ]

\* a stack that holds the new entry alone
PushedAlone(f, new_focus) ==
    [f EXCEPT !.focus_process_stack = <<new_focus>>,
              !.current_focus = new_focus.focus_id,
              !.description = new_focus.description]

\* the stack with a new entry on top
PushedStack(f, new_focus) ==
    [f EXCEPT !.focus_process_stack = Append(@, new_focus),
              !.current_focus = new_focus.focus_id,
              !.description = new_focus.description]

\* a push that goes on after git checkout -b has failed
PushNewUnchecked(g, f, id, create_branch, auto_commit, e) ==
    LET git_commit == IF create_branch THEN GetCurrentGitCommit(g) ELSE NoCommit
        br == IF create_branch
              THEN CreateGitBranch(g, BranchNameFor(id), e.branchOk)
              ELSE [g |-> g, ok |-> TRUE]
        new_focus == NewFocus(f, id, create_branch, auto_commit, git_commit)
    IN Result(br.g, SaveFocusStack(f, PushedStack(f, new_focus), e.saveOk),
              e.saveOk,
              (IF br.ok THEN {} ELSE {"create"}) \cup SaveFailed(e.saveOk))

\* a push that returns True whether or not the stack file was written
PushNewReportsSuccess(g, f, id, create_branch, auto_commit, e) ==
    LET git_commit == IF create_branch THEN GetCurrentGitCommit(g) ELSE NoCommit
        br == IF create_branch
              THEN CreateGitBranch(g, BranchNameFor(id), e.branchOk)
              ELSE [g |-> g, ok |-> TRUE]
        new_focus == NewFocus(f, id, create_branch, auto_commit, git_commit)
    IN IF ~br.ok
       THEN Result(g, f, FALSE, {"create"})
       ELSE Result(br.g, SaveFocusStack(f, PushedStack(f, new_focus), e.saveOk),
                   TRUE, SaveFailed(e.saveOk))

\* push_focus_process once the id has passed the circular-dependency check
PushNew(g, f, id, create_branch, auto_commit, e) ==
    LET git_commit == IF create_branch THEN GetCurrentGitCommit(g) ELSE NoCommit
        br == IF create_branch
              THEN CreateGitBranch(g, BranchNameFor(id), e.branchOk)
              ELSE [g |-> g, ok |-> TRUE]
        new_focus == NewFocus(f, id, create_branch, auto_commit, git_commit)
    IN IF ~br.ok
       THEN Result(g, f, FALSE, {"create"})
       ELSE Result(br.g, SaveFocusStack(f, PushedStack(f, new_focus), e.saveOk),
                   e.saveOk, SaveFailed(e.saveOk))

\* a push that rejects a duplicate and records nothing about it
PushFocusUnrecorded(g, f, id, create_branch, auto_commit, e) ==
    IF DetectCircularDependency(f.focus_process_stack, id)
    THEN Result(g, f, FALSE, {"duplicate"})
    ELSE PushNew(g, f, id, create_branch, auto_commit, e)

PushFocus(g, f, id, create_branch, auto_commit, e) ==
    IF DetectCircularDependency(f.focus_process_stack, id)
    THEN Result(g,
                SaveFocusStack(f, [f EXCEPT !.detected = TRUE,
                                            !.dependency_chain = Append(@, id)],
                               e.saveOk),
                FALSE, {"duplicate"} \cup SaveFailed(e.saveOk))
    ELSE PushNew(g, f, id, create_branch, auto_commit, e)

\* push_focus_process on the file f, from load_focus_stack on
PushCall(g, f, id, create_branch, auto_commit) ==
    IF ~Subscriptable(LoadFocusStack(f))
    THEN { Raised(g, f) }
    ELSE { OnFile(f, PushFocus(g, LoadFocusStack(f), id, create_branch, auto_commit, e)) :
              e \in PushEnv }

\* a push of one of the ids; a rejected push is left out once the
\* dependency_chain has reached its bound
PushOver(ids) ==
    \E id \in ids, create_branch \in BOOLEAN, auto_commit \in AutoCommitArgs :
       /\ DetectCircularDependency(file.focus_process_stack, id)
             => Len(file.dependency_chain) < MaxChain
       /\ \E o \in PushCall(git, file, id, create_branch, auto_commit) :
             /\ git' = o.git
             /\ file' = o.file
             /\ UNCHANGED <<batch, tracker, calls>>

PushFocusProcess == PushOver(FocusIds)

-----------------------------------------------------------------------------
(* pop_focus_process and _complete_focus_with_merge *)

Strategies == {"auto", "squash", "merge", "no-merge"}

\* commit count up to which the auto strategy squashes
SquashThreshold == 3

\* the branch a completed focus is merged into: stack[-2]["branch_name"] of
\* the stack on disk (dict.get returns the stored None, not the default),
\* or main when the focus is alone
TargetBranch(stack) ==
    IF Len(stack) > 1 THEN stack[Len(stack) - 1].branch_name ELSE Main

\* auto always squashes
SquashOnAuto(focus, merge_strategy) ==
    IF merge_strategy \in {"squash", "merge", "no-merge"} THEN merge_strategy
    ELSE "squash"

\* the strategy that runs: anything but squash, merge and no-merge is auto
StrategyUsed(focus, merge_strategy) ==
    IF merge_strategy \in {"squash", "merge", "no-merge"} THEN merge_strategy
    ELSE IF Len(focus.commit_history) <= SquashThreshold THEN "squash" ELSE "merge"

\* outcomes of the git commands of a completion, set by the environment
\* (finalOk: the final commit had changes to record and recorded them)
CompleteEnv ==
    [ finalOk : BOOLEAN, targetOk : BOOLEAN, mergeOk : BOOLEAN, deleteOk : BOOLEAN ]

\* a completion that merges where it stands after the switch to the target
\* branch has failed
CompleteWithoutSwitchCheck(g, stack, focus, merge_strategy, e) ==
    LET target == TargetBranch(stack)
        g1 == IF focus.auto_commit_on_edit
              THEN AutoCommitChanges(g, e.finalOk).g ELSE g
        sw == SwitchGitBranch(g1, target, e.targetOk)
        use == StrategyUsed(focus, merge_strategy)
        m == CASE use = "squash" -> SquashMergeBranch(sw.g, focus.branch_name, e.mergeOk)
               [] use = "merge" -> MergeBranch(sw.g, focus.branch_name, e.mergeOk)
               [] OTHER -> [g |-> sw.g, ok |-> TRUE]
        d == DeleteMergedBranch(m.g, focus.branch_name, e.deleteOk)
        switched == IF sw.ok THEN {} ELSE {"switch_target"}
    IN IF ~m.ok
       THEN [g |-> m.g, ok |-> FALSE, events |-> {use, "merge failed"} \cup switched]
       ELSE [g |-> d.g, ok |-> TRUE,
             events |-> {use} \cup switched \cup (IF d.ok THEN {} ELSE {"delete"})]

CompleteFocusWithMerge(g, stack, focus, merge_strategy, e) ==
    LET target == TargetBranch(stack)
        g1 == IF focus.auto_commit_on_edit
              THEN AutoCommitChanges(g, e.finalOk).g ELSE g
        sw == SwitchGitBranch(g1, target, e.targetOk)
        use == StrategyUsed(focus, merge_strategy)
        m == CASE use = "squash" -> SquashMergeBranch(sw.g, focus.branch_name, e.mergeOk)
               [] use = "merge" -> MergeBranch(sw.g, focus.branch_name, e.mergeOk)
               [] OTHER -> [g |-> sw.g, ok |-> TRUE]
        d == DeleteMergedBranch(m.g, focus.branch_name, e.deleteOk)
    IN IF ~sw.ok
       THEN [g |-> g1, ok |-> FALSE, events |-> {"switch_target"}]
       ELSE IF ~m.ok
       THEN [g |-> m.g, ok |-> FALSE, events |-> {use, "merge failed"}]
       ELSE [g |-> d.g, ok |-> TRUE,
             events |-> {use} \cup (IF d.ok THEN {} ELSE {"delete"})]

\* entries removed, current_focus and description left as they were
RestoreParentStale(stack, rest) ==
    [stack EXCEPT !.focus_process_stack = rest]

\* current_focus and description after entries have been removed
RestoreParent(stack, rest) ==
    [stack EXCEPT !.focus_process_stack = rest,
                  !.current_focus = IF rest # <<>> THEN Last(rest).focus_id ELSE NoFocus,
                  !.description = IF rest # <<>> THEN Last(rest).description ELSE <<>>]

PopEnv == [ switchOk : BOOLEAN, saveOk : BOOLEAN ]

\* the branch switch that ends a pop: to the parent's branch when it has
\* one, to main when no focus remains, none with force_escape
PopSwitch(g, rest, force_escape, ok) ==
    IF force_escape THEN [g |-> g, ok |-> TRUE]
    ELSE IF rest = <<>> THEN SwitchGitBranch(g, Main, ok)
    ELSE IF Last(rest).branch_name # NoBranch
    THEN SwitchGitBranch(g, Last(rest).branch_name, ok)
    ELSE [g |-> g, ok |-> TRUE]

\* pop_focus_process after a completion that succeeded or was not needed
PopRestore(f, c, force_escape, e) ==
    LET rest == Front(f.focus_process_stack)
        sw == PopSwitch(c.g, rest, force_escape, e.switchOk)
    IN Result(sw.g, SaveFocusStack(f, RestoreParent(f, rest), e.saveOk),
              e.saveOk,
              c.events \cup (IF sw.ok THEN {} ELSE {"switch"})
                       \cup SaveFailed(e.saveOk))

\* a pop that goes on after the completion has failed
PopIgnoringCompletion(f, c, force_escape, e) ==
    PopRestore(f, c, force_escape, e)

\* pop_focus_process on a stack that is not empty, given the completion c
PopAfterCompletion(f, c, force_escape, e) ==
    IF ~c.ok
    THEN Result(c.g, f, FALSE, c.events \cup {"completion"})
    ELSE PopRestore(f, c, force_escape, e)

\* a completion runs unless force_escape is set or the focus has no branch
Completes(f, force_escape) ==
    ~force_escape /\ Last(f.focus_process_stack).branch_name # NoBranch

Completions(g, f, force_escape, merge_strategy) ==
    IF Completes(f, force_escape)
    THEN { CompleteFocusWithMerge(g, f.focus_process_stack,
                                  Last(f.focus_process_stack), merge_strategy, ce) :
              ce \in CompleteEnv }
    ELSE { [g |-> g, ok |-> TRUE, events |-> {}] }

\* a pop that does not look whether the stack is empty
PopFocusUnguarded(g, f, force_escape, merge_strategy) ==
    { PopAfterCompletion(f, c, force_escape, e) :
         c \in (IF f.focus_process_stack = <<>>
                THEN { [g |-> g, ok |-> TRUE, events |-> {}] }
                ELSE Completions(g, f, force_escape, merge_strategy)),
         e \in PopEnv }

PopFocus(g, f, force_escape, merge_strategy) ==
    IF f.focus_process_stack = <<>>
    THEN { Result(g, f, FALSE, {"empty"}) }
    ELSE { PopAfterCompletion(f, c, force_escape, e) :
              c \in Completions(g, f, force_escape, merge_strategy), e \in PopEnv }

\* pop_focus_process on the file f, from load_focus_stack on
PopCall(g, f, force_escape, merge_strategy) ==
    IF ~Subscriptable(LoadFocusStack(f))
    THEN { Raised(g, f) }
    ELSE { OnFile(f, o) : o \in PopFocus(g, LoadFocusStack(f), force_escape,
                                          merge_strategy) }

PopFocusProcess ==
    \E force_escape \in BOOLEAN, merge_strategy \in Strategies :
       \E o \in PopCall(git, file, force_escape, merge_strategy) :
          /\ git' = o.git
          /\ file' = o.file
          /\ UNCHANGED <<batch, tracker, calls>>

-----------------------------------------------------------------------------
(* trigger_escape_hatch *)

\* the escape_levels arguments tried
LevelArgs == 0..(Cardinality(FocusIds) + 1)

\* what _call_vibelint_llm may return: None (-1) or a number of levels
NoRecommendation == -1
Recommendations == {NoRecommendation} \cup LevelArgs

\* a recommendation that falls back to 0 (every level)
RecommendationOrAll(r) == IF r = NoRecommendation THEN 0 ELSE r

\* _get_vibelint_escape_recommendation: the integer recommended, else 1
GetVibelintEscapeRecommendation(r) == IF r = NoRecommendation THEN 1 ELSE r

\* the levels asked for once the recommendation has been taken
RequestedLevels(escape_levels, use_vibelint_judge, rec) ==
    IF use_vibelint_judge /\ escape_levels = 1
    THEN GetVibelintEscapeRecommendation(rec)
    ELSE escape_levels

Min(a, b) == IF a < b THEN a ELSE b

\* levels clamped to the depth, 0 taken as no level
EscapeLevelsZeroKeeps(escape_levels, max_levels) ==
    Min(escape_levels, max_levels)

\* validated number of levels
EscapeLevels(escape_levels, max_levels) ==
    IF escape_levels <= 0 THEN max_levels ELSE Min(escape_levels, max_levels)

\* the loop over the levels: hard reset to git_commit_before when the entry
\* recorded one (the outcome of the reset is not looked at), then removal
RECURSIVE Unwind(_, _, _, _)
Unwind(g, stack, levels, resetOk) ==
    IF levels = 0 \/ stack = <<>>
    THEN [g |-> g, stack |-> stack, events |-> {}]
    ELSE LET focus_to_escape == Last(stack)
             r == IF focus_to_escape.git_commit_before # NoCommit
                  THEN RevertToGitCommit(g, focus_to_escape.git_commit_before,
                                         resetOk[Len(stack)])
                  ELSE [g |-> g, ok |-> TRUE]
             u == Unwind(r.g, Front(stack), levels - 1, resetOk)
         IN [u EXCEPT !.events = @ \cup (IF r.ok THEN {} ELSE {"reset"})]

\* the branch switch that ends an escape
EscapeSwitch(g, rest, ok) ==
    IF rest = <<>> THEN SwitchGitBranch(g, Main, ok)
    ELSE IF Last(rest).branch_name # NoBranch
    THEN SwitchGitBranch(g, Last(rest).branch_name, ok)
    ELSE [g |-> g, ok |-> TRUE]

\* the reasons given for an escape
EscapeReasons == {"stuck", "semantic drift"}

EscapeEnv(depth) == [ resetOk : [1..depth -> BOOLEAN], switchOk : BOOLEAN, saveOk : BOOLEAN ]

\* trigger_escape_hatch on a stack that is not empty, from the levels asked for
EscapeBy(g, f, reason, requested, e) ==
    LET levels == EscapeLevels(requested, Len(f.focus_process_stack))
        u == Unwind(g, f.focus_process_stack, levels, e.resetOk)
        sw == EscapeSwitch(u.g, u.stack, e.switchOk)
        escaped == [RestoreParent(f, u.stack) EXCEPT !.last_escape = reason]
    IN Result(sw.g, SaveFocusStack(f, escaped, e.saveOk),
              e.saveOk,
              u.events \cup (IF sw.ok THEN {} ELSE {"switch"})
                       \cup SaveFailed(e.saveOk))

\* trigger_escape_hatch, for every reason it may be given
TriggerEscape(g, f, escape_levels, use_vibelint_judge, rec) ==
    IF f.focus_process_stack = <<>>
    THEN { Result(g, f, FALSE, {"empty"}) }
    ELSE UNION { { EscapeBy(g, f, reason,
                            RequestedLevels(escape_levels, use_vibelint_judge, rec), e) :
                      e \in EscapeEnv(Len(f.focus_process_stack)) } :
                 reason \in EscapeReasons }

\* trigger_escape_hatch on the file f, from load_focus_stack on
EscapeCall(g, f, escape_levels, use_vibelint_judge, rec) ==
    IF ~Subscriptable(LoadFocusStack(f))
    THEN { Raised(g, f) }
    ELSE { OnFile(f, o) : o \in TriggerEscape(g, LoadFocusStack(f), escape_levels,
                                              use_vibelint_judge, rec) }

TriggerEscapeHatch ==
    \E requested \in { RequestedLevels(escape_levels, use_vibelint_judge, rec) :
                          escape_levels \in LevelArgs, use_vibelint_judge \in BOOLEAN,
                          rec \in Recommendations } :
       \E o \in EscapeCall(git, file, requested, FALSE, NoRecommendation) :
          /\ git' = o.git
          /\ file' = o.file
          /\ UNCHANGED <<batch, tracker, calls>>

-----------------------------------------------------------------------------
(* auto_commit_tool_call and _update_focus_with_commit_metadata *)

ToolNames == {"Edit"}

FilePaths == { <<>>, <<"a.py">> }

\* outcomes of git add, of git diff --cached --quiet (staged: there are
\* staged changes), of git commit and of the save
AutoCommitEnv ==
    [ addOk : BOOLEAN, staged : BOOLEAN, commitOk : BOOLEAN, saveOk : BOOLEAN ]

\* get_current_focus_info()["focus_id"]
CurrentFocusId(f) ==
    IF f.focus_process_stack = <<>> THEN NoFocus
    ELSE Last(f.focus_process_stack).focus_id

\* the commit record is appended to the bottom entry of the stack
UpdateBottomFocus(stack, focus_id, tool_name, file_paths, commit_hash) ==
    LET commit_record == [ commit_hash |-> commit_hash,
                           tool_name |-> tool_name,
                           file_paths |-> file_paths,
                           focus_depth_at_commit |-> Len(stack.focus_process_stack) ]
    IN IF stack.focus_process_stack = <<>> THEN stack
       ELSE [stack EXCEPT !.focus_process_stack[1].commit_history =
                              Append(@, commit_record)]

\* the commit record is appended to the first entry whose focus_id is focus_id
UpdateFocusWithCommitMetadata(stack, focus_id, tool_name, file_paths, commit_hash) ==
    LET hits == { i \in 1..Len(stack.focus_process_stack) :
                     stack.focus_process_stack[i].focus_id = focus_id }
        first == CHOOSE i \in hits : \A j \in hits : i <= j
        commit_record == [ commit_hash |-> commit_hash,
                           tool_name |-> tool_name,
                           file_paths |-> file_paths,
                           focus_depth_at_commit |-> Len(stack.focus_process_stack) ]
    IN IF hits = {} THEN stack
       ELSE [stack EXCEPT !.focus_process_stack[first].commit_history =
                              Append(@, commit_record)]

\* an auto-commit that commits without looking whether anything is staged
AutoCommitUnstaged(g, f, tool_name, file_paths, e) ==
    IF file_paths = <<>>
    THEN Result(g, f, TRUE, {"no files"})
    ELSE IF ~e.addOk
    THEN Result(g, f, FALSE, {"add"})
    ELSE IF ~(e.commitOk /\ CanCommit(g))
    THEN Result(g, f, FALSE, {"commit"})
    ELSE LET g1 == NewCommit(g, BranchHistory(g, g.head))
             stack == UpdateFocusWithCommitMetadata(f, CurrentFocusId(f), tool_name,
                                                    file_paths, GetCurrentGitCommit(g1))
         IN Result(g1, SaveFocusStack(f, stack, e.saveOk), TRUE,
                   {"committed"} \cup SaveFailed(e.saveOk))

AutoCommit(g, f, tool_name, file_paths, e) ==
    IF file_paths = <<>>
    THEN Result(g, f, TRUE, {"no files"})
    ELSE IF ~e.addOk
    THEN Result(g, f, FALSE, {"add"})
    ELSE IF ~e.staged
    THEN Result(g, f, TRUE, {"nothing staged"})
    ELSE IF ~(e.commitOk /\ CanCommit(g))
    THEN Result(g, f, FALSE, {"commit"})
    ELSE LET g1 == NewCommit(g, BranchHistory(g, g.head))
             stack == UpdateFocusWithCommitMetadata(f, CurrentFocusId(f), tool_name,
                                                    file_paths, GetCurrentGitCommit(g1))
         IN Result(g1, SaveFocusStack(f, stack, e.saveOk), TRUE,
                   {"committed"} \cup SaveFailed(e.saveOk))

\* get_current_focus_info on the file f
GetCurrentFocusInfo(f) ==
    LET stack == LoadFocusStack(f)
    IN IF ~Subscriptable(stack)
       THEN [ raised |-> TRUE, focus_id |-> NoFocus, stack_depth |-> 0 ]
       ELSE [ raised |-> FALSE,
              focus_id |-> CurrentFocusId(stack),
              stack_depth |-> Len(stack.focus_process_stack) ]

\* auto_commit_tool_call on the file f: with files to commit it loads the
\* stack and asks for the current focus, and what that raises is caught
AutoCommitCall(g, f, tool_name, file_paths) ==
    IF file_paths # <<>> /\ GetCurrentFocusInfo(f).raised
    THEN { Result(g, f, FALSE, {"error"}) }
    ELSE { OnFile(f, AutoCommit(g, LoadFocusStack(f), tool_name, file_paths, e)) :
              e \in AutoCommitEnv }

AutoCommitToolCall ==
    \E o \in UNION { AutoCommitCall(git, file, tool_name, file_paths) :
                        tool_name \in ToolNames, file_paths \in FilePaths } :
       /\ git' = o.git
       /\ file' = o.file
       /\ UNCHANGED <<batch, tracker, calls>>

-----------------------------------------------------------------------------
(* Hook discovery: hooks/loader.py *)

\* hooks found over the three sources
MaxFound == 2

HookNames == {"a", "b"}

\* DiscoveredHook.source: "builtin", f"entrypoint:{ep.name}", f"filesystem:{fn}"
Builtin == <<"builtin">>
EntryPoint == <<"entrypoint", ":", "ep">>
Filesystem == <<"filesystem", ":", "h.py">>

\* the order in which discover_hooks collects the sources
SourceOrder == <<Builtin, EntryPoint, Filesystem>>

\* HookBase.priority: the priority of GitGuardHook and the default priority
GitGuardPriority == 30
DefaultPriority == 100

\* a DiscoveredHook with the fields of its hook that run_all reads;
\* HookBase.events of a hook is empty or holds one event
FoundHooks ==
    [ name : HookNames, source : {Builtin, EntryPoint, Filesystem},
      priority : {GitGuardPriority, DefaultPriority}, enabled : BOOLEAN,
      events : { <<>>, <<"PreToolUse">> } ]

\* place of a source in the order of collection
PlaceOf(source) == CHOOSE k \in 1..Len(SourceOrder) : SourceOrder[k] = source

\* hooks.extend(builtin); hooks.extend(entry points); hooks.extend(filesystem)
FoundLists ==
    { l \in UNION { [1..n -> FoundHooks] : n \in 0..MaxFound } :
         \A i \in 1..Len(l), j \in 1..Len(l) :
            i < j => PlaceOf(l[i].source) <= PlaceOf(l[j].source) }

\* src.split(":", 1)[0]
RECURSIVE SplitHead(_)
SplitHead(src) ==
    IF src = <<>> \/ Head(src) = ":" THEN <<>>
    ELSE <<Head(src)>> \o SplitHead(Tail(src))

\* priority_of_source.get(s, 0)
SrcPriority(src) ==
    LET s == SplitHead(src)
    IN IF s = <<"filesystem">> THEN 3
       ELSE IF s = <<"entrypoint">> THEN 2
       ELSE IF s = <<"builtin">> THEN 1
       ELSE 0

\* by_name.get(key): the place of the key in the dict, 0 when it is absent
PlaceOfName(by_name, key) ==
    IF \E k \in 1..Len(by_name) : by_name[k].name = key
    THEN CHOOSE k \in 1..Len(by_name) : by_name[k].name = key
    ELSE 0

\* a dict in which the first hook found under a name stays
RECURSIVE DeduplicateKeepingFirst(_, _)
DeduplicateKeepingFirst(hooks, by_name) ==
    IF hooks = <<>> THEN by_name
    ELSE DeduplicateKeepingFirst(Tail(hooks),
            IF PlaceOfName(by_name, Head(hooks).name) = 0
            THEN Append(by_name, Head(hooks)) ELSE by_name)

\* the loop over hooks that fills by_name (a dict keeps its keys in the order
\* of their first insertion)
RECURSIVE Deduplicate(_, _)
Deduplicate(hooks, by_name) ==
    IF hooks = <<>> THEN by_name
    ELSE LET h == Head(hooks)
             k == PlaceOfName(by_name, h.name)
         IN Deduplicate(Tail(hooks),
               IF k = 0 THEN Append(by_name, h)
               ELSE IF SrcPriority(h.source) >= SrcPriority(by_name[k].source)
               THEN [by_name EXCEPT ![k] = h]
               ELSE by_name)

\* h put into a list sorted by priority, behind the hooks of its priority
RECURSIVE InsertByPriority(_, _)
InsertByPriority(sorted, h) ==
    IF sorted = <<>> THEN <<h>>
    ELSE IF Last(sorted).priority <= h.priority THEN Append(sorted, h)
    ELSE Append(InsertByPriority(Front(sorted), h), Last(sorted))

\* a list left in the order of the dict
Unsorted(discovered_list) == discovered_list

\* discovered_list.sort(key=priority): a stable sort
RECURSIVE SortByPriority(_)
SortByPriority(discovered_list) ==
    IF discovered_list = <<>> THEN <<>>
    ELSE InsertByPriority(SortByPriority(Front(discovered_list)),
                          Last(discovered_list))

DiscoverHooks(found) == SortByPriority(Deduplicate(found, <<>>))

-----------------------------------------------------------------------------
(* Orchestrator.run_all: hooks/orchestrator.py *)

NoResults == [n \in HookNames |-> "none"]

\* no call in progress; found: the hooks the sources hold; outcome: how the
\* last hook.run of the call ended
IdleBatch(found) ==
    [ phase |-> "idle", found |-> found, hooks |-> <<>>, event |-> "",
      i |-> 1, results |-> NoResults, log |-> <<>>, outcome |-> "" ]

\* a run_all that does not look at hook.events
DecisionWithoutEvents(hook, current_event) ==
    IF ~hook.enabled THEN "disabled" ELSE "run"

\* what the loop does with a hook
Decision(hook, current_event) ==
    IF ~hook.enabled THEN "disabled"
    ELSE IF /\ hook.events # <<>>
            /\ current_event # ""
            /\ \A k \in 1..Len(hook.events) : hook.events[k] # current_event
    THEN "not for event"
    ELSE "run"

\* the status recorded for an outcome of hook.run that run_all catches
StatusOf(outcome) ==
    CASE outcome = "return" -> "ok"
      [] outcome = "HookError" -> "error"
      [] OTHER -> "crash"

\* Orchestrator.list_hooks
ListHooks ==
    /\ batch.phase = "idle"
    /\ batch' = [batch EXCEPT !.phase = "listed", !.hooks = DiscoverHooks(batch.found)]
    /\ UNCHANGED <<git, file, tracker, calls>>

\* run_all up to its loop
RunAllStarts ==
    /\ batch.phase \in {"idle", "listed"}
    /\ \E current_event \in {"", "PreToolUse", "Stop"} :   \* CLAUDE_HOOK_EVENT_NAME
          batch' = [batch EXCEPT !.phase = "running",
                                 !.hooks = DiscoverHooks(batch.found),
                                 !.event = current_event,
                                 !.i = 1, !.results = NoResults, !.log = <<>>,
                                 !.outcome = ""]
    /\ UNCHANGED <<git, file, tracker, calls>>

\* an iteration that ends in continue
RunAllSkips ==
    /\ batch.phase = "running"
    /\ batch.i <= Len(batch.hooks)
    /\ Decision(batch.hooks[batch.i], batch.event) # "run"
    /\ batch' = [batch EXCEPT !.results[batch.hooks[batch.i].name] = "skipped",
                              !.i = @ + 1]
    /\ UNCHANGED <<git, file, tracker, calls>>

\* hook.run(ctx) is called
HookRunBegins ==
    /\ batch.phase = "running"
    /\ batch.i <= Len(batch.hooks)
    /\ Decision(batch.hooks[batch.i], batch.event) = "run"
    /\ batch' = [batch EXCEPT !.phase = "in hook",
                              !.log = Append(@, <<"begin", batch.hooks[batch.i].name>>)]
    /\ UNCHANGED <<git, file, tracker, calls>>

\* hook.run(ctx) returns or raises; SystemExit is no Exception and leaves
\* run_all
HookRunEnds ==
    /\ batch.phase = "in hook"
    \* what hook.run(ctx) does
    /\ \E outcome \in {"return", "HookError", "Exception", "SystemExit"} :
          batch' = IF outcome = "SystemExit"
                   THEN [batch EXCEPT !.phase = "raised",
                            !.outcome = outcome,
                            !.log = Append(@, <<"end", batch.hooks[batch.i].name>>)]
                   ELSE [batch EXCEPT !.phase = "running",
                            !.outcome = outcome,
                            !.log = Append(@, <<"end", batch.hooks[batch.i].name>>),
                            !.results[batch.hooks[batch.i].name] = StatusOf(outcome),
                            !.i = @ + 1]
    /\ UNCHANGED <<git, file, tracker, calls>>

\* return {"context": ctx, "results": results}
RunAllReturns ==
    /\ batch.phase = "running"
    /\ batch.i > Len(batch.hooks)
    /\ batch' = [batch EXCEPT !.phase = "returned"]
    /\ UNCHANGED <<git, file, tracker, calls>>

-----------------------------------------------------------------------------
(* Invocations that run at the same time.  Each is a process of its own: it *)
(* loads the stack file, runs its git commands and writes the file back.    *)

\* commits made on top of the initial commit when invocations overlap
RaceCommits == 1

\* longest dependency_chain recorded by rejected pushes that overlap
RaceChain == 0

\* the processes that may run at the same time
Procs == {1, 2}

\* a process between invocations
NoCall == [ op |-> "idle", focus_id |-> NoFocus, stack |-> CreateEmptyStack ]

\* run: what each process is doing and the copy of the stack it has loaded;
\* stale_save: some save has replaced a file that another process had
\* written after the saving process loaded its copy
NoCalls == [ run |-> [ p \in Procs |-> NoCall ], stale_save |-> FALSE ]

\* the process p has loaded the stack for the operation op
Loaded(p, op, focus_id) ==
    [calls EXCEPT !.run[p] = [ op |-> op, focus_id |-> focus_id,
                               stack |-> LoadFocusStack(file) ]]

\* the process p ends its invocation; written: it has replaced the file
Ended(p, written) ==
    [calls EXCEPT !.run[p] = NoCall,
                  !.stale_save = @ \/ (written /\ calls.run[p].stack # LoadFocusStack(file))]

\* an invocation that left the state o.file of its copy has written it
\* unless that is the copy as loaded (push, pop and escape change the stack
\* whenever they save)
Saved(p, o) == o.file # calls.run[p].stack

\* save_focus_stack replaces the whole file, and a call that saved nothing
\* leaves the file as it is now
FileAfter(p, o) == IF Saved(p, o) THEN o.file ELSE file

\* push_focus_process: load_focus_stack
PushLoads ==
    \E p \in Procs :
       /\ calls.run[p].op = "idle"
       /\ calls' = Loaded(p, "push", NoFocus)
       /\ UNCHANGED <<git, file, batch, tracker>>

\* push_focus_process: from the check of the id to save_focus_stack; the
\* pushes that overlap ask for no branch
PushSaves ==
    \E p \in Procs, id \in FocusIds, create_branch \in {FALSE}, e \in PushEnv :
       LET o == PushFocus(git, calls.run[p].stack, id, create_branch, TRUE, e)
       IN /\ calls.run[p].op = "push"
          /\ DetectCircularDependency(calls.run[p].stack.focus_process_stack, id)
                => Len(calls.run[p].stack.dependency_chain) < RaceChain
          /\ git' = o.git
          /\ file' = FileAfter(p, o)
          /\ calls' = Ended(p, Saved(p, o))
          /\ UNCHANGED <<batch, tracker>>

\* pop_focus_process: load_focus_stack
PopLoads ==
    \E p \in Procs :
       /\ calls.run[p].op = "idle"
       /\ calls' = Loaded(p, "pop", NoFocus)
       /\ UNCHANGED <<git, file, batch, tracker>>

\* pop_focus_process: from the check for an empty stack to save_focus_stack
PopSaves ==
    \E p \in Procs, force_escape \in BOOLEAN, merge_strategy \in Strategies :
       \E o \in PopFocus(git, calls.run[p].stack, force_escape, merge_strategy) :
          /\ calls.run[p].op = "pop"
          /\ git' = o.git
          /\ file' = FileAfter(p, o)
          /\ calls' = Ended(p, Saved(p, o))
          /\ UNCHANGED <<batch, tracker>>

\* trigger_escape_hatch: load_focus_stack
EscapeLoads ==
    \E p \in Procs :
       /\ calls.run[p].op = "idle"
       /\ calls' = Loaded(p, "escape", NoFocus)
       /\ UNCHANGED <<git, file, batch, tracker>>

\* trigger_escape_hatch: from the check for an empty stack to
\* save_focus_stack; the escapes that overlap give one reason
EscapeSaves ==
    \E p \in Procs, escape_levels \in LevelArgs :
       \E o \in IF calls.run[p].stack.focus_process_stack = <<>>
                THEN { Result(git, calls.run[p].stack, FALSE, {"empty"}) }
                ELSE { EscapeBy(git, calls.run[p].stack, "stuck", escape_levels, e) :
                          e \in EscapeEnv(Len(calls.run[p].stack.focus_process_stack)) } :
          /\ calls.run[p].op = "escape"
          /\ git' = o.git
          /\ file' = FileAfter(p, o)
          /\ calls' = Ended(p, Saved(p, o))
          /\ UNCHANGED <<batch, tracker>>

\* auto_commit_tool_call up to its commit: the current focus is read from
\* the file, and when git has committed the record update is due
AutoCommitCommits ==
    \E p \in Procs, e \in AutoCommitEnv :
       /\ calls.run[p].op = "idle"
       /\ e.addOk /\ e.staged /\ e.commitOk /\ CanCommit(git)
       /\ git' = NewCommit(git, BranchHistory(git, git.head))
       /\ calls' = [calls EXCEPT !.run[p] =
                       [ op |-> "committed",
                         focus_id |-> CurrentFocusId(LoadFocusStack(file)),
                         stack |-> CreateEmptyStack ]]
       /\ UNCHANGED <<file, batch, tracker>>

\* _update_focus_with_commit_metadata: load_focus_stack
RecordLoads ==
    \E p \in Procs :
       /\ calls.run[p].op = "committed"
       /\ calls' = Loaded(p, "record", calls.run[p].focus_id)
       /\ UNCHANGED <<git, file, batch, tracker>>

\* the copy of p with the commit record appended to the entry of its focus,
\* when the copy has one
RecordedCopy(p, tool_name) ==
    UpdateFocusWithCommitMetadata(calls.run[p].stack, calls.run[p].focus_id,
                                  tool_name, <<"a.py">>, GetCurrentGitCommit(git))

\* _update_focus_with_commit_metadata: the copy is saved whether or not a
\* record was appended
RecordSaves ==
    \E p \in Procs, tool_name \in ToolNames, saveOk \in BOOLEAN :
       /\ calls.run[p].op = "record"
       /\ file' = SaveFocusStack(file, RecordedCopy(p, tool_name), saveOk)
       /\ calls' = Ended(p, saveOk)
       /\ UNCHANGED <<git, batch, tracker>>

-----------------------------------------------------------------------------
(* find_semantic_escape_target *)

\* commits made on top of the initial commit when escape targets are scored
TargetCommits == 2

\* a reason, as the set of the focus ids that occur in reason.lower()
Reasons == SUBSET FocusIds

\* the criteria flags _select_best_escape_target reads
Criteria ==
    [ prefer_stable_commits : BOOLEAN, preserve_work : BOOLEAN,
      avoid_circular_dependencies : BOOLEAN ]

\* relevance_score of a focus with commits: the last one is less than an
\* hour old, less than a day old, or older
Relevances == {30, 20, 10}

\* total_score below which the target is main
ScoreFloor == 20

\* _analyze_escape_candidate; level counts from 0.  No entry has
\* circular_dependency_detected_on_creation, so that part of safety_score
\* is always given
AnalyzeEscapeCandidate(focus, level, reason, relevance) ==
    LET commit_history == focus.commit_history
        tool_types == { commit_history[k].tool_name : k \in 1..Len(commit_history) }
    IN [ focus_id |-> focus.focus_id,
         level |-> level,
         stability_score |-> IF commit_history # <<>>
                             THEN Min(Len(commit_history) * 10, 50) ELSE 0,
         relevance_score |-> IF commit_history # <<>> THEN relevance ELSE 0,
         work_preservation_score |->
             (IF "Write" \in tool_types THEN 20 ELSE 0)
             + (IF "Edit" \in tool_types \/ "MultiEdit" \in tool_types THEN 15 ELSE 0),
         safety_score |-> (IF focus.focus_id \notin reason THEN 20 ELSE 0) + 15 ]

\* ten times total_score (the weights are 1.2, 1.5, 1.0 and 0.8)
TotalScore(candidate, criteria) ==
    (IF criteria.prefer_stable_commits THEN candidate.stability_score * 12 ELSE 0)
    + (IF criteria.preserve_work THEN candidate.work_preservation_score * 15 ELSE 0)
    + (IF criteria.avoid_circular_dependencies THEN candidate.safety_score * 10 ELSE 0)
    + candidate.relevance_score * 8

\* c put into a list sorted by total score, highest first, behind the
\* candidates of its score
RECURSIVE InsertByScore(_, _, _)
InsertByScore(sorted, c, criteria) ==
    IF sorted = <<>> THEN <<c>>
    ELSE IF TotalScore(Last(sorted), criteria) >= TotalScore(c, criteria)
    THEN Append(sorted, c)
    ELSE Append(InsertByScore(Front(sorted), c, criteria), Last(sorted))

\* a sort that puts the later of two candidates of one score first
RECURSIVE SortLaterFirst(_, _)
SortLaterFirst(candidates, criteria) ==
    IF candidates = <<>> THEN <<>>
    ELSE LET rest == SortLaterFirst(Front(candidates), criteria)
             c == Last(candidates)
             ahead == SelectSeq(rest, LAMBDA d :
                         TotalScore(d, criteria) > TotalScore(c, criteria))
             behind == SelectSeq(rest, LAMBDA d :
                         TotalScore(d, criteria) <= TotalScore(c, criteria))
         IN ahead \o <<c>> \o behind

\* candidates.sort(key=total_score, reverse=True): a stable sort
RECURSIVE SortByTotalScore(_, _)
SortByTotalScore(candidates, criteria) ==
    IF candidates = <<>> THEN <<>>
    ELSE InsertByScore(SortByTotalScore(Front(candidates), criteria),
                       Last(candidates), criteria)

\* _select_best_escape_target
SelectBestEscapeTarget(candidates, criteria) ==
    IF candidates = <<>>
    THEN [ target |-> Main, levels |-> 0 ]
    ELSE LET best == SortByTotalScore(candidates, criteria)[1]
         IN IF TotalScore(best, criteria) < ScoreFloor * 10
            THEN [ target |-> Main, levels |-> 0 ]
            ELSE [ target |-> best.focus_id,
                   levels |-> Len(candidates) - best.level ]

\* find_semantic_escape_target on the stack file f; relevance[i] is what the
\* clock gives for the last commit of entry i
FindSemanticEscapeTarget(f, reason, criteria, relevance) ==
    LET stack == f.focus_process_stack
        escape_candidates ==
            [ i \in 1..Len(stack) |->
                 AnalyzeEscapeCandidate(stack[i], i - 1, reason, relevance[i]) ]
    IN IF stack = <<>>
       THEN [ target |-> Main, levels |-> 0 ]
       ELSE SelectBestEscapeTarget(escape_candidates, criteria)

\* auto_commit_tool_call after one of the tools scored
AutoCommitAnyTool ==
    \E o \in UNION { AutoCommitCall(git, file, tool_name, file_paths) :
                        tool_name \in {"Edit", "Write", "Bash"},
                        file_paths \in FilePaths } :
       /\ git' = o.git
       /\ file' = o.file
       /\ UNCHANGED <<batch, tracker, calls>>

-----------------------------------------------------------------------------
(* The override usage tracker *)

\* the most automatic unsets and recorded resets of one override type
MaxUnsets == 2
MaxResets == 1

\* the number of uses at which the override is unset
Ceiling == 3
\* the usage records kept
HistoryKept == 10
\* minutes after an escape in which it counts as a recent completion, and as
\* a recent semantic escape
CompletionWindow == 30
SemanticWindow == 15

\* the override type the git operations guard tracks
OverrideTypes == {"git_operations"}
TrackingHooks == {"git_operations_guard"}
\* values of KAIA_GUARDRAILS_OVERRIDE and KAIA_EMERGENCY_OVERRIDE; "" is unset
OverrideValues == {"", "git_operations", "GIT_OPERATIONS", "all", "git"}
EmergencyValues == {"", "1"}

\* str.lower on the values above
Lower(s) == IF s = "GIT_OPERATIONS" THEN "git_operations" ELSE s

\* the entry made for an override type at its first use
NewOverrideData ==
    [ tracked |-> TRUE,
      usage_count |-> 0,
      auto_unset_count |-> 0,
      usage_history |-> <<>>,
      reset_conditions_met |-> <<>> ]

\* _load_usage_data of a missing file: no override type has an entry
NewTracker ==
    [ usage_data |-> [ t \in OverrideTypes |->
                          [NewOverrideData EXCEPT !.tracked = FALSE] ],
      override |-> "",
      emergency |-> "",
      returned |-> "" ]

\* no last_escape in the stack file
NoEscape == -1
\* minutes since last_escape
EscapeAges == {NoEscape, 10, 20, 40}

TrackEnv ==
    [ timeout : BOOLEAN, escape_age : EscapeAges, semantic : BOOLEAN,
      logs : BOOLEAN, saveOk : BOOLEAN ]

\* what a call can find with the stack file f: an age of last_escape when
\* the file has one, and whether its reason names a semantic escape
TrackEnvOf(f) ==
    { e \in TrackEnv :
         /\ (e.escape_age = NoEscape) <=> (f.last_escape = NoLastEscape)
         \* "semantic" in reason.lower()
         /\ e.semantic <=> (f.last_escape = "semantic drift") }

NoReason == ""

CheckRecentFocusCompletion(e) ==
    e.escape_age # NoEscape /\ e.escape_age < CompletionWindow

CheckRecentSemanticEscape(e) ==
    e.escape_age # NoEscape /\ e.semantic /\ e.escape_age < SemanticWindow

CheckSignificantProjectChange(g) == g.head = Main

CheckErrorResolution(e) == e.logs

\* _check_logical_reset_conditions: the first condition that holds; an entry
\* made by this call has last_used = now, so no time has passed for it
CheckLogicalResetConditions(existed, g, e) ==
    IF existed /\ e.timeout THEN "24_hour_timeout"
    ELSE IF CheckRecentFocusCompletion(e) THEN "focus_process_completed"
    ELSE IF CheckRecentSemanticEscape(e) THEN "semantic_escape_triggered"
    ELSE IF CheckSignificantProjectChange(g) THEN "project_state_changed"
    ELSE IF CheckErrorResolution(e) THEN "error_resolution_detected"
    ELSE NoReason

IsOverrideActive(t, override_type) ==
    \/ Lower(t.override) \in {override_type, "all", "true"}
    \/ Lower(t.emergency) \in {"true", "1", "yes"}

\* a reset that records its reason and leaves the counter
ResetKeepingCount(d, reason) ==
    [d EXCEPT !.reset_conditions_met = Append(@, reason)]

ResetUsage(d, reason) ==
    [d EXCEPT !.usage_count = 0,
              !.reset_conditions_met = Append(@, reason)]

KeepLast(h) ==
    IF Len(h) > HistoryKept THEN SubSeq(h, Len(h) - HistoryKept + 1, Len(h)) ELSE h

\* _save_usage_data: the file is replaced, or left as it was when the write fails
SaveUsageData(old, new, ok) == IF ok THEN new ELSE old

\* a tracker that counts uses and never unsets the override
TrackWithoutCeiling(t, g, override_type, hook_name, e) ==
    LET old == t.usage_data[override_type]
        made == IF old.tracked THEN old ELSE NewOverrideData
    IN IF ~IsOverrideActive(t, override_type)
       THEN t
       ELSE [t EXCEPT !.usage_data =
                         SaveUsageData(@, [@ EXCEPT ![override_type] =
                                             [made EXCEPT !.usage_count = @ + 1]],
                                       e.saveOk),
                      !.returned = "used"]

\* track_override_usage
TrackOverrideUsage(t, g, override_type, hook_name, e) ==
    LET old == t.usage_data[override_type]
        made == IF old.tracked THEN old ELSE NewOverrideData
        reset_reason == CheckLogicalResetConditions(old.tracked, g, e)
        override_data == IF reset_reason # NoReason
                         THEN ResetUsage(made, reset_reason) ELSE made
        saved(d) == SaveUsageData(t.usage_data,
                                  [t.usage_data EXCEPT ![override_type] = d],
                                  e.saveOk)
    IN IF ~IsOverrideActive(t, override_type)
       THEN [t EXCEPT !.usage_data =
                         saved(IF override_data.usage_count > 0
                               THEN ResetUsage(override_data, "manual_unset")
                               ELSE override_data),
                      !.returned = ""]
       ELSE LET used == [override_data EXCEPT
                           !.usage_count = @ + 1,
                           !.usage_history =
                               KeepLast(Append(@, [hook |-> hook_name,
                                                   usage_number |->
                                                     override_data.usage_count + 1]))]
            IN IF used.usage_count >= Ceiling
               THEN [ usage_data |-> saved([used EXCEPT !.auto_unset_count = @ + 1,
                                                        !.usage_count = 0]),
                      override |-> "",
                      emergency |-> "",
                      returned |-> "auto-unset" ]
               ELSE [t EXCEPT !.usage_data = saved(used),
                              !.returned = "used"]

\* one call of track_override_usage by a hook
TrackUsage ==
    \E override_type \in OverrideTypes, hook_name \in TrackingHooks,
       e \in TrackEnvOf(file) :
       LET t == TrackOverrideUsage(tracker, git, override_type, hook_name, e)
       IN /\ \A c \in OverrideTypes :
                /\ t.usage_data[c].auto_unset_count <= MaxUnsets
                /\ Len(t.usage_data[c].reset_conditions_met) <= MaxResets
          /\ tracker' = t
          /\ UNCHANGED <<git, file, batch, calls>>

\* reset_override_usage: one override type that has an entry, or, for None
\* and the empty string, every override type that has one
AllTypes == ""

ResetOverrideUsage(t, override_type, reason, saveOk) ==
    LET reset == [ c \in OverrideTypes |->
                     IF t.usage_data[c].tracked
                        /\ (override_type = AllTypes \/ override_type = c)
                     THEN ResetUsage(t.usage_data[c], reason)
                     ELSE t.usage_data[c] ]
    IN [t EXCEPT !.usage_data = SaveUsageData(t.usage_data, reset, saveOk)]

\* one call of reset_override_usage with its default reason
ResetOverride ==
    \E override_type \in OverrideTypes \cup {AllTypes}, saveOk \in BOOLEAN :
       LET t == ResetOverrideUsage(tracker, override_type, "manual_reset", saveOk)
       IN /\ \A c \in OverrideTypes :
                Len(t.usage_data[c].reset_conditions_met) <= MaxResets
          /\ tracker' = t
          /\ UNCHANGED <<git, file, batch, calls>>

\* the override variables are exported or unset outside the tracker
SetOverride ==
    \E v \in OverrideValues, w \in EmergencyValues :
       /\ tracker' = [tracker EXCEPT !.override = v, !.emergency = w]
       /\ UNCHANGED <<git, file, batch, calls>>

-----------------------------------------------------------------------------
(* GitOperationsGuardHook: hooks/implementation/git_operations_guard.py *)

\* _check_for_override
CheckForOverride(t) ==
    \/ Lower(t.override) \in {"git_operations", "git", "all", "true"}
    \/ Lower(t.emergency) \in {"true", "1", "yes"}

\* _handle_dangerous_operation: with an override the use is tracked and the
\* command allowed (run returns None), without one HookError is raised
HandleDangerousOperation(t, g, e) ==
    IF CheckForOverride(t)
    THEN [ tracker |-> TrackOverrideUsage(t, g, "git_operations",
                                          "git_operations_guard", e),
           allowed |-> TRUE ]
    ELSE [ tracker |-> t, allowed |-> FALSE ]

\* the guard runs on a Bash command with a dangerous git operation
GuardDangerousOperation ==
    \E e \in TrackEnvOf(file) :
       LET t == HandleDangerousOperation(tracker, git, e).tracker
       IN /\ \A c \in OverrideTypes :
                /\ t.usage_data[c].auto_unset_count <= MaxUnsets
                /\ Len(t.usage_data[c].reset_conditions_met) <= MaxResets
          /\ tracker' = t
          /\ UNCHANGED <<git, file, batch, calls>>

-----------------------------------------------------------------------------
(* Specifications *)

\* a repository with the initial commit on main and room for more commits
InitialRepository(room) ==
    [ head |-> Main,
      tip |-> [b \in Branches |-> IF b = Main THEN 0 ELSE NoCommit],
      hist |-> [c \in {0} |-> {0}],
      n |-> 1,
      room |-> room ]

Init ==
    /\ git = InitialRepository(MaxCommits)
    /\ file = CreateEmptyStack
    /\ batch = IdleBatch(<<>>)
    /\ tracker = NewTracker
    /\ calls = NoCalls

Next ==
    \/ PushFocusProcess
    \/ PopFocusProcess
    \/ TriggerEscapeHatch
    \/ AutoCommitToolCall

Spec == Init /\ [][Next]_vars

\* one focus id, more commits
SoloIds == { <<"x">> }

InitSolo ==
    /\ git = InitialRepository(SoloCommits)
    /\ file = CreateEmptyStack
    /\ batch = IdleBatch(<<>>)
    /\ tracker = NewTracker
    /\ calls = NoCalls

PushSolo == PushOver(SoloIds)

NextSolo ==
    \/ PushSolo
    \/ PopFocusProcess
    \/ TriggerEscapeHatch
    \/ AutoCommitToolCall

SpecSolo == InitSolo /\ [][NextSolo]_vars

\* both focus ids, a repository that takes no further commit
InitStack ==
    /\ git = InitialRepository(StackCommits)
    /\ file = CreateEmptyStack
    /\ batch = IdleBatch(<<>>)
    /\ tracker = NewTracker
    /\ calls = NoCalls

SpecStack == InitStack /\ [][Next]_vars

\* the orchestrator over every list of found hooks
InitHooks ==
    /\ git = InitialRepository(StackCommits)
    /\ file = CreateEmptyStack
    /\ batch \in { IdleBatch(found) : found \in FoundLists }
    /\ tracker = NewTracker
    /\ calls = NoCalls

NextHooks ==
    \/ ListHooks
    \/ RunAllStarts
    \/ RunAllSkips
    \/ HookRunBegins
    \/ HookRunEnds
    \/ RunAllReturns

SpecHooks == InitHooks /\ [][NextHooks]_vars

\* the tracker, in a repository on main or on the branch of a pushed focus,
\* which an escape may leave again
InitTracker ==
    /\ \E id \in SoloIds, create_branch \in BOOLEAN, e \in PushEnv :
          LET o == PushFocus(InitialRepository(StackCommits), CreateEmptyStack,
                             id, create_branch, TRUE, e)
          IN git = o.git /\ file = o.file
    /\ batch = IdleBatch(<<>>)
    /\ tracker = NewTracker
    /\ calls = NoCalls

NextTracker ==
    \/ TrackUsage
    \/ ResetOverride
    \/ SetOverride
    \/ TriggerEscapeHatch
    \/ GuardDangerousOperation

SpecTracker == InitTracker /\ [][NextTracker]_vars

\* stacks that grow, with commits recorded after any of the tools scored
InitTarget ==
    /\ git = InitialRepository(TargetCommits)
    /\ file = CreateEmptyStack
    /\ batch = IdleBatch(<<>>)
    /\ tracker = NewTracker
    /\ calls = NoCalls

NextTarget ==
    \/ PushFocusProcess
    \/ AutoCommitAnyTool

SpecTarget == InitTarget /\ [][NextTarget]_vars

\* two focus ids that replace('_', '-') maps to one branch name, in a
\* repository that takes no further commit
PushTwin == PushOver({ <<"p", "_", "q">>, <<"p", "-", "q">> })

NextTwins ==
    \/ PushTwin
    \/ PopFocusProcess
    \/ TriggerEscapeHatch
    \/ AutoCommitToolCall

SpecTwins == InitStack /\ [][NextTwins]_vars

\* invocations of two processes, their loads and saves in any order
InitRace ==
    /\ git = InitialRepository(RaceCommits)
    /\ file = CreateEmptyStack
    /\ batch = IdleBatch(<<>>)
    /\ tracker = NewTracker
    /\ calls = NoCalls

NextRace ==
    \/ PushLoads
    \/ PushSaves
    \/ PopLoads
    \/ PopSaves
    \/ EscapeLoads
    \/ EscapeSaves
    \/ AutoCommitCommits
    \/ RecordLoads
    \/ RecordSaves

SpecRace == InitRace /\ [][NextRace]_vars

\* the stack file is removed or overwritten outside the manager
DamageStackFile ==
    \E d \in Damages :
       /\ file' = DamagedFile(d)
       /\ UNCHANGED <<git, batch, tracker, calls>>

\* the focus operations over a stack file that may be damaged
InitFiles ==
    /\ git = InitialRepository(StackCommits)
    /\ file = DamagedFile("absent")
    /\ batch = IdleBatch(<<>>)
    /\ tracker = NewTracker
    /\ calls = NoCalls

NextFiles ==
    \/ Next
    \/ DamageStackFile

SpecFiles == InitFiles /\ [][NextFiles]_vars

-----------------------------------------------------------------------------
(* Properties.  Each is stated over the outcomes the operations have in a     *)
(* reachable state: o.git and o.file are what the call leaves, o.ok what it  *)
(* returns.                                                                  *)

\* C1: a push whose focus_id is already in the stack returns False and leaves
\* the stack as it was: same entries in the same order, same depth, same
\* current_focus
C1_DuplicatePushRejected ==
    \A id \in FocusIds, create_branch \in BOOLEAN, auto_commit \in AutoCommitArgs,
       e \in PushEnv :
       (\E i \in 1..Len(file.focus_process_stack) :
           file.focus_process_stack[i].focus_id = id)
       => LET o == PushFocus(git, file, id, create_branch, auto_commit, e)
          IN /\ ~o.ok
             /\ o.file.focus_process_stack = file.focus_process_stack
             /\ o.file.current_focus = file.current_focus
             /\ o.git = git

\* a rejected push has been recorded while two entries are stacked, and the
\* id under the top is pushed again
C1_Witness ==
    /\ Len(file.focus_process_stack) = 2
    /\ file.detected
    /\ file.dependency_chain # <<>>
    /\ \E create_branch \in BOOLEAN, e \in PushEnv :
          ~PushFocus(git, file, file.focus_process_stack[1].focus_id,
                     create_branch, TRUE, e).ok

\* C2: in every persisted state current_focus is the focus_id of the top
\* entry of the stack, or None when the stack is empty
C2_CurrentFocusIsTop ==
    file.current_focus = IF file.focus_process_stack = <<>> THEN NoFocus
                         ELSE Last(file.focus_process_stack).focus_id

\* the second focus has been pushed with its branch and removed again, the
\* first one is current
C2_Witness ==
    /\ Len(file.focus_process_stack) = 1
    /\ file.current_focus = <<"x">>
    /\ BranchExists(git, BranchNameFor(<<"p", "_", "q">>))
    /\ file.focus_process_stack[1].commit_history # <<>>

\* C4: when the merge of a pop fails, the pop returns False and the persisted
\* stack is the one before the pop
C4_FailedMergeKeepsStack ==
    \A force_escape \in BOOLEAN, merge_strategy \in Strategies :
       \A o \in PopFocus(git, file, force_escape, merge_strategy) :
          "merge failed" \in o.events => ~o.ok /\ o.file = file

\* the merge of a pop fails while two entries are stacked
C4_Witness ==
    /\ Len(file.focus_process_stack) = 2
    /\ \E o \in PopFocus(git, file, FALSE, "auto") :
          "merge failed" \in o.events /\ ~o.ok /\ o.git # git

\* C6: when git checkout -b fails during a push with create_branch, the push
\* returns False and the persisted stack is unchanged
C6_FailedBranchCreationKeepsStack ==
    \A id \in FocusIds, auto_commit \in AutoCommitArgs, e \in PushEnv :
       LET o == PushFocus(git, file, id, TRUE, auto_commit, e)
       IN "create" \in o.events => ~o.ok /\ o.file = file

\* a push fails on a focus stacked over another because the branch of its id
\* is still there
C6_Witness ==
    /\ file.focus_process_stack # <<>>
    /\ \E id \in FocusIds, e \in PushEnv :
          /\ BranchExists(git, BranchNameFor(id))
          /\ e.branchOk
          /\ "create" \in PushFocus(git, file, id, TRUE, TRUE, e).events

\* the current branch after a call is the branch_name of the top entry when
\* it has one, main when no entry is left
BranchMatchesTop(o) ==
    IF o.file.focus_process_stack = <<>> THEN o.git.head = Main
    ELSE Last(o.file.focus_process_stack).branch_name # NoBranch
            => o.git.head = Last(o.file.focus_process_stack).branch_name

\* C3: after any push, pop or escape that returns True the current branch is
\* the branch_name of the new top entry, or main when the stack is empty,
\* whatever the outcomes of the git commands
C3_BranchFollowsStack ==
    /\ \A id \in FocusIds, create_branch \in BOOLEAN, auto_commit \in AutoCommitArgs,
          e \in PushEnv :
          LET o == PushFocus(git, file, id, create_branch, auto_commit, e)
          IN o.ok => BranchMatchesTop(o)
    /\ \A force_escape \in BOOLEAN, merge_strategy \in Strategies :
          \A o \in PopFocus(git, file, force_escape, merge_strategy) :
             o.ok => BranchMatchesTop(o)
    /\ \A escape_levels \in LevelArgs :
          \A o \in TriggerEscape(git, file, escape_levels, FALSE, NoRecommendation) :
             o.ok => BranchMatchesTop(o)

\* C5: after a pop that returns False because the completion of a focus with
\* a branch failed, the current branch is still the branch_name of the top
\* entry, as it was before the pop
C5_FailedCompletionKeepsBranch ==
    \A merge_strategy \in Strategies :
       \A o \in PopFocus(git, file, FALSE, merge_strategy) :
          (/\ "completion" \in o.events
           /\ git.head = Last(file.focus_process_stack).branch_name)
          => o.git.head = Last(o.file.focus_process_stack).branch_name

\* a call in which one of the given failures happened leaves the persisted
\* stack as it was
UnchangedOnFailure(o, failures) ==
    o.events \cap failures # {} => o.file = file

C8_EscapeDiscardsCommits ==
    \A escape_levels \in LevelArgs :
       \A o \in TriggerEscape(git, file, escape_levels, FALSE, NoRecommendation) :
          o.ok =>
             \A i \in (Len(o.file.focus_process_stack) + 1)..Len(file.focus_process_stack) :
                \A k \in 1..Len(file.focus_process_stack[i].commit_history) :
                   file.focus_process_stack[i].commit_history[k].commit_hash
                      \notin BranchHistory(o.git, Main)

\* C9: a pop without force_escape that returns True and squashes (asked for,
\* or auto with at most 3 recorded commits) a focus that has a branch and
\* recorded commits adds exactly one commit to the target branch and removes
\* the focus
C9_SquashAddsOneCommit ==
    \A merge_strategy \in {"squash", "auto"} :
       \A o \in PopFocus(git, file, FALSE, merge_strategy) :
          LET stack == file.focus_process_stack
              focus == Last(stack)
              target == IF Len(stack) > 1 THEN stack[Len(stack) - 1].branch_name
                        ELSE Main
          IN (/\ o.ok
              /\ "squash" \in o.events
              /\ focus.branch_name # NoBranch
              /\ focus.commit_history # <<>>)
             => /\ Cardinality(BranchHistory(o.git, target) \ BranchHistory(git, target)) = 1
                /\ o.file.focus_process_stack = Front(stack)

\* C10: when a pop without force_escape of a focus that has a branch returns
\* True, that branch no longer exists
C10_BranchDeletedAfterPop ==
    \A merge_strategy \in Strategies :
       \A o \in PopFocus(git, file, FALSE, merge_strategy) :
          (o.ok /\ Last(file.focus_process_stack).branch_name # NoBranch)
          => ~BranchExists(o.git, Last(file.focus_process_stack).branch_name)

\* C11: pop_focus_process and trigger_escape_hatch on an empty stack return
\* False and change neither the persisted stack nor the repository
C11_EmptyStackRefused ==
    file.focus_process_stack = <<>>
    => /\ \A force_escape \in BOOLEAN, merge_strategy \in Strategies :
             \A o \in PopFocus(git, file, force_escape, merge_strategy) :
                ~o.ok /\ o.file = file /\ o.git = git
       /\ \A escape_levels \in LevelArgs, use_vibelint_judge \in BOOLEAN,
             rec \in Recommendations :
             \A o \in TriggerEscape(git, file, escape_levels, use_vibelint_judge, rec) :
                ~o.ok /\ o.file = file /\ o.git = git

\* the stack is empty again after a focus has been pushed and removed, the
\* current branch is not main, and a pop and an escape are refused
C11_Witness ==
    /\ file.focus_process_stack = <<>>
    /\ git.head # Main
    /\ \E o \in PopFocus(git, file, FALSE, "auto") : ~o.ok
    /\ \E o \in TriggerEscape(git, file, 0, FALSE, NoRecommendation) : ~o.ok

\* C12: a trigger_escape_hatch that returns True, called without the
\* recommendation, leaves the stack empty when escape_levels is 0 and removes
\* exactly min(escape_levels, depth) entries from the top when escape_levels
\* is at least 1; the entries that remain are unchanged and in the same order
C12_EscapeRemovesLevels ==
    \A escape_levels \in LevelArgs :
       \A o \in TriggerEscape(git, file, escape_levels, FALSE, NoRecommendation) :
          LET stack == file.focus_process_stack
              removed == IF escape_levels = 0 THEN Len(stack)
                         ELSE IF escape_levels < Len(stack) THEN escape_levels
                         ELSE Len(stack)
          IN o.ok => o.file.focus_process_stack = SubSeq(stack, 1, Len(stack) - removed)

\* two entries are stacked; an escape of one level leaves the bottom one, an
\* escape of 0 levels and one of 3 levels leave none
C12_Witness ==
    /\ Len(file.focus_process_stack) = 2
    /\ \E o \in TriggerEscape(git, file, 1, FALSE, NoRecommendation) :
          o.ok /\ o.file.focus_process_stack = <<file.focus_process_stack[1]>>
    /\ \E o \in TriggerEscape(git, file, 0, FALSE, NoRecommendation) :
          o.ok /\ o.file.focus_process_stack = <<>>
    /\ \E o \in TriggerEscape(git, file, 3, FALSE, NoRecommendation) :
          o.ok /\ o.file.focus_process_stack = <<>>

\* C13: with escape_levels = 1 and use_vibelint_judge set, a recommendation
\* that failed or is no integer (None) makes the escape unwind exactly one
\* level; with escape_levels other than 1 or use_vibelint_judge unset the
\* recommendation has no part in the outcome
C13_RecommendationDefaultsToOne ==
    /\ \A o \in TriggerEscape(git, file, 1, TRUE, NoRecommendation) :
          o.ok => o.file.focus_process_stack = Front(file.focus_process_stack)
    /\ \A escape_levels \in LevelArgs :
          LET unadvised == TriggerEscape(git, file, escape_levels, FALSE, NoRecommendation)
          IN \A use_vibelint_judge \in BOOLEAN, rec \in Recommendations :
                (escape_levels # 1 \/ ~use_vibelint_judge)
                => TriggerEscape(git, file, escape_levels, use_vibelint_judge, rec)
                      = unadvised

\* two entries are stacked and an escape asked with the recommendation, which
\* fails, removes the top one only
C13_Witness ==
    /\ Len(file.focus_process_stack) = 2
    /\ \E o \in TriggerEscape(git, file, 1, TRUE, NoRecommendation) :
          o.ok /\ Len(o.file.focus_process_stack) = 1

\* C14: auto_commit_tool_call with no file_paths, or with nothing staged once
\* the paths have been added, returns True, makes no commit and leaves the
\* persisted stack as it was
C14_AutoCommitNoOp ==
    \A tool_name \in ToolNames, file_paths \in FilePaths, e \in AutoCommitEnv :
       (file_paths = <<>> \/ (e.addOk /\ ~e.staged))
       => LET o == AutoCommit(git, file, tool_name, file_paths, e)
          IN o.ok /\ o.git = git /\ o.file = file

\* a focus is current, a commit could be made, and auto_commit_tool_call is
\* called with no paths and with paths of which nothing is staged
C14_Witness ==
    /\ file.focus_process_stack # <<>>
    /\ CanCommit(git)
    /\ \E e \in AutoCommitEnv :
          /\ e.addOk /\ ~e.staged /\ e.commitOk /\ e.saveOk
          /\ AutoCommit(git, file, "Edit", <<"a.py">>, e).ok
          /\ AutoCommit(git, file, "Edit", <<>>, e).ok

\* the entries of the stack a call found are still there after it, at the
\* same places, with the commit_history they had
HistoriesKept(o) ==
    \A i \in 1..Len(file.focus_process_stack) :
       i <= Len(o.file.focus_process_stack)
       => o.file.focus_process_stack[i].commit_history
             = file.focus_process_stack[i].commit_history

\* the stack of o is the stack before the call with one record for the
\* commit of o appended to the commit_history of the top entry
OneRecordOnTop(o, tool_name, file_paths) ==
    LET old == file.focus_process_stack
        new == o.file.focus_process_stack
        depth == Len(old)
    IN /\ Len(new) = depth
       /\ \A i \in 1..(depth - 1) : new[i] = old[i]
       /\ Len(new[depth].commit_history) = Len(old[depth].commit_history) + 1
       /\ Front(new[depth].commit_history) = old[depth].commit_history
       /\ Last(new[depth].commit_history).commit_hash = o.git.tip[o.git.head]
       /\ Last(new[depth].commit_history).tool_name = tool_name
       /\ Last(new[depth].commit_history).file_paths = file_paths

Begun == { batch.log[k][2] : k \in { j \in 1..Len(batch.log) : batch.log[j][1] = "begin" } }

\* C16: a hook whose run fails, in whatever way, keeps no hook ordered after
\* it from running, no failure leaves run_all, and the result run_all returns
\* holds a status for every discovered hook
C16_HookIsolation ==
    /\ batch.phase # "raised"
    /\ batch.phase = "returned"
       => \A k \in 1..Len(batch.hooks) :
             /\ batch.results[batch.hooks[k].name] # "none"
             /\ batch.results[batch.hooks[k].name] # "skipped"
                => batch.hooks[k].name \in Begun

\* C17: run_all runs one hook at a time in ascending order of priority: of
\* two hooks that both run, the one with the strictly lower priority has
\* ended before the other begins
C17_AscendingPriorityOneAtATime ==
    LET log == batch.log
        PriorityOf(n) ==
           (CHOOSE h \in { batch.hooks[k] : k \in 1..Len(batch.hooks) } : h.name = n).priority
    IN /\ \A k \in 1..Len(log) :
             log[k][1] = "begin" => (k = Len(log) \/ log[k + 1] = <<"end", log[k][2]>>)
       /\ \A i \in 1..Len(log), j \in 1..Len(log) :
             (/\ log[i][1] = "begin"
              /\ log[j][1] = "begin"
              /\ PriorityOf(log[i][2]) < PriorityOf(log[j][2]))
             => \E k \in (i + 1)..(j - 1) : log[k] = <<"end", log[i][2]>>

\* run_all has returned after running two hooks of different priorities that
\* were found in the opposite order
C17_Witness ==
    /\ batch.phase = "returned"
    /\ Len(batch.found) = 2
    /\ batch.found[1].priority > batch.found[2].priority
    /\ Len(batch.log) = 4
    /\ batch.log[1] = <<"begin", batch.found[2].name>>
    /\ batch.log[3] = <<"begin", batch.found[1].name>>

\* C18 as stated: a hook that is disabled, or whose events do not include the
\* current event, is not run in the batch and has the status skipped in the
\* result run_all returns
C18_InapplicableHooksSkipped ==
    batch.phase \in {"running", "in hook", "returned", "raised"}
    => \A k \in 1..Len(batch.hooks) :
          LET hook == batch.hooks[k]
          IN (\/ ~hook.enabled
              \/ \A e \in 1..Len(hook.events) : hook.events[e] # batch.event)
             => /\ hook.name \notin Begun
                /\ batch.phase = "returned" => batch.results[hook.name] = "skipped"

\* C18, amended: a hook that is disabled, or whose events list is not empty
\* and does not include the current event while a current event is set, is
\* not run in the batch and has the status skipped in the result run_all
\* returns; an enabled hook with no events, and every enabled hook when no
\* current event is set, is run
C18_SkippedWhenDisabledOrOtherEvent ==
    batch.phase \in {"running", "in hook", "returned", "raised"}
    => \A k \in 1..Len(batch.hooks) :
          LET hook == batch.hooks[k]
          IN IF \/ ~hook.enabled
                \/ /\ hook.events # <<>>
                   /\ batch.event # ""
                   /\ \A e \in 1..Len(hook.events) : hook.events[e] # batch.event
             THEN /\ hook.name \notin Begun
                  /\ batch.phase = "returned" => batch.results[hook.name] = "skipped"
             ELSE batch.phase = "returned"
                  => /\ hook.name \in Begun
                     /\ batch.results[hook.name] \in {"ok", "error", "crash"}

\* run_all has returned on the event Stop: a hook with no events was run, a
\* hook for PreToolUse and a disabled hook would have been skipped
C18_Witness ==
    /\ batch.phase = "returned"
    /\ batch.event = "Stop"
    /\ Len(batch.hooks) = 2
    /\ \E k \in 1..2 :
          /\ batch.hooks[k].enabled
          /\ batch.hooks[k].events = <<>>
          /\ batch.results[batch.hooks[k].name] = "ok"
    /\ \E k \in 1..2 :
          /\ batch.hooks[k].enabled
          /\ batch.hooks[k].events = <<"PreToolUse">>
          /\ batch.results[batch.hooks[k].name] = "skipped"

\* C19: the list of discover_hooks holds at most one descriptor per name,
\* and the descriptor kept for a name comes from the most specific of the
\* sources the name was found in: filesystem before entry point before
\* builtin
C19_OnePerNameMostSpecificSource ==
    LET list == batch.hooks
        Specificity(source) == CASE source[1] = "filesystem" -> 3
                                 [] source[1] = "entrypoint" -> 2
                                 [] source[1] = "builtin" -> 1
    IN batch.phase # "idle"
       => /\ \A i \in 1..Len(list), j \in 1..Len(list) :
                list[i].name = list[j].name => i = j
          /\ \A k \in 1..Len(batch.found) :
                \E i \in 1..Len(list) :
                   /\ list[i].name = batch.found[k].name
                   /\ Specificity(list[i].source) >= Specificity(batch.found[k].source)
          /\ \A i \in 1..Len(list) :
                \E k \in 1..Len(batch.found) : list[i] = batch.found[k]

\* one name was found as a builtin hook and as a filesystem hook, and
\* list_hooks has kept the filesystem one
C19_Witness ==
    /\ batch.phase = "listed"
    /\ Len(batch.found) = 2
    /\ batch.found[1].name = batch.found[2].name
    /\ batch.found[1].source = <<"builtin">>
    /\ batch.found[2].source[1] = "filesystem"
    /\ batch.found[1].priority # batch.found[2].priority
    /\ batch.hooks = <<batch.found[2]>>

\* the state after three calls in a row for one override type
ThreeCalls(t, g, override_type, hook_name, e) ==
    TrackOverrideUsage(
        TrackOverrideUsage(
            TrackOverrideUsage(t, g, override_type, hook_name, e[1]),
            g, override_type, hook_name, e[2]),
        g, override_type, hook_name, e[3])

\* C20: override ceiling.  From a counter at 0, three track_override_usage
\* calls in a row for one override type, the override active at each of
\* them, end with the third call unsetting the override: the override is no
\* longer active, usage_count is 0, auto_unset_count is one more than
\* before, and the message returned is not empty.  A fourth call with the
\* override set again leaves usage_count at 1.
C20_OverrideCeiling ==
    \A override_type \in OverrideTypes, hook_name \in TrackingHooks,
       e \in [1..3 -> TrackEnvOf(file)] :
       LET first == TrackOverrideUsage(tracker, git, override_type, hook_name, e[1])
           second == TrackOverrideUsage(first, git, override_type, hook_name, e[2])
           third == ThreeCalls(tracker, git, override_type, hook_name, e)
       IN ( /\ tracker.usage_data[override_type].usage_count = 0
            /\ IsOverrideActive(tracker, override_type)
            /\ IsOverrideActive(first, override_type)
            /\ IsOverrideActive(second, override_type) )
          => /\ third.returned # ""
             /\ ~IsOverrideActive(third, override_type)
             /\ third.usage_data[override_type].usage_count = 0
             /\ third.usage_data[override_type].auto_unset_count
                  = tracker.usage_data[override_type].auto_unset_count + 1
             /\ \A v \in OverrideValues, w \in EmergencyValues, again \in TrackEnvOf(file) :
                   LET set == [third EXCEPT !.override = v, !.emergency = w]
                       fourth == TrackOverrideUsage(set, git, override_type,
                                                    hook_name, again)
                   IN IsOverrideActive(set, override_type)
                      => fourth.usage_data[override_type].usage_count = 1

\* C21: in every state of override_usage.json reached from a missing file by
\* track_override_usage and reset_override_usage calls, the usage_count of
\* every override type is 0, 1 or 2: it is below the ceiling.
C21_CountBelowCeiling ==
    \A c \in OverrideTypes :
       tracker.usage_data[c].usage_count \in 0..(Ceiling - 1)

\* the counter stands at 2 again after an automatic unset
C21_Witness ==
    \E c \in OverrideTypes :
       /\ tracker.usage_data[c].usage_count = Ceiling - 1
       /\ tracker.usage_data[c].auto_unset_count >= 1

\* C22: when the override is not active for the override type at a
\* track_override_usage call, the usage_count of that type is 0 afterwards,
\* the message returned is empty and auto_unset_count is what it was.
C22_InactiveResetsCounter ==
    \A c \in OverrideTypes, hook_name \in TrackingHooks, e \in TrackEnvOf(file) :
       LET t == TrackOverrideUsage(tracker, git, c, hook_name, e)
       IN ~IsOverrideActive(tracker, c)
          => /\ t.usage_data[c].usage_count = 0
             /\ t.returned = ""
             /\ t.usage_data[c].auto_unset_count
                  = tracker.usage_data[c].auto_unset_count

\* C22, amended: when the override is not active for the override type at a
\* track_override_usage call, the message returned is empty, the override
\* variables and auto_unset_count are what they were, and the usage_count
\* of that type is 0 afterwards if override_usage.json could be written;
\* if it could not, the file is what it was.
C22_InactiveResetsCounterWhenWritten ==
    \A c \in OverrideTypes, hook_name \in TrackingHooks, e \in TrackEnvOf(file) :
       LET t == TrackOverrideUsage(tracker, git, c, hook_name, e)
       IN ~IsOverrideActive(tracker, c)
          => /\ t.returned = ""
             /\ t.override = tracker.override
             /\ t.emergency = tracker.emergency
             /\ t.usage_data[c].auto_unset_count
                  = tracker.usage_data[c].auto_unset_count
             /\ e.saveOk => t.usage_data[c].usage_count = 0
             /\ ~e.saveOk => t.usage_data = tracker.usage_data

\* a call with the override unset has put a counter that stood above 0 back to 0
C22_Witness ==
    \E c \in OverrideTypes :
       /\ ~IsOverrideActive(tracker, c)
       /\ tracker.returned = ""
       /\ tracker.usage_data[c].usage_count = 0
       /\ tracker.usage_data[c].reset_conditions_met = <<"manual_unset">>
       /\ tracker.usage_data[c].usage_history # <<>>

\* C23: after a pop that was not forced has removed a focus and returned
\* success, a track_override_usage call made right after it counts from 0
\* and appends "focus_process_completed" to the reset_conditions_met of the
\* override type (override_usage.json being written).
C23_CompletionResetsCounter ==
    \A merge_strategy \in Strategies :
       \A o \in PopFocus(git, file, FALSE, merge_strategy) :
          (o.ok /\ file.focus_process_stack # <<>>)
          => \A c \in OverrideTypes, hook_name \in TrackingHooks,
                e \in TrackEnvOf(o.file) :
                LET before == tracker.usage_data[c]
                    t == TrackOverrideUsage(tracker, o.git, c, hook_name, e)
                IN e.saveOk
                   => /\ t.usage_data[c].usage_count
                           = (IF IsOverrideActive(tracker, c) THEN 1 ELSE 0)
                      /\ t.usage_data[c].reset_conditions_met
                           = Append(before.reset_conditions_met,
                                    "focus_process_completed")

\* what a call returned and left, the stack file read as load_focus_stack
\* reads it
Observed(outcomes) ==
    { [ ok |-> o.ok, events |-> o.events, git |-> o.git,
        stack |-> LoadFocusStack(o.file) ] : o \in outcomes }

\* C24: a focus stack file that is missing or malformed is read as the empty
\* stack.  On such a file push, pop, escape, auto-commit and
\* get_current_focus_info raise nothing, and they return and leave what they
\* return and leave on a file that holds the empty stack.
C24_DamagedStackFileReadsAsEmpty ==
    \A d \in Damages :
       LET damaged == DamagedFile(d)
           empty == CreateEmptyStack
       IN /\ \A id \in FocusIds, create_branch \in BOOLEAN :
                /\ \A o \in PushCall(git, damaged, id, create_branch, TRUE) :
                      "raised" \notin o.events
                /\ Observed(PushCall(git, damaged, id, create_branch, TRUE))
                     = Observed(PushCall(git, empty, id, create_branch, TRUE))
          /\ \A force_escape \in BOOLEAN, merge_strategy \in Strategies :
                /\ \A o \in PopCall(git, damaged, force_escape, merge_strategy) :
                      "raised" \notin o.events
                /\ Observed(PopCall(git, damaged, force_escape, merge_strategy))
                     = Observed(PopCall(git, empty, force_escape, merge_strategy))
          /\ \A escape_levels \in LevelArgs :
                /\ \A o \in EscapeCall(git, damaged, escape_levels, FALSE,
                                       NoRecommendation) :
                      "raised" \notin o.events
                /\ Observed(EscapeCall(git, damaged, escape_levels, FALSE,
                                       NoRecommendation))
                     = Observed(EscapeCall(git, empty, escape_levels, FALSE,
                                           NoRecommendation))
          /\ \A tool_name \in ToolNames, file_paths \in FilePaths :
                Observed(AutoCommitCall(git, damaged, tool_name, file_paths))
                  = Observed(AutoCommitCall(git, empty, tool_name, file_paths))
          /\ GetCurrentFocusInfo(damaged) = GetCurrentFocusInfo(empty)

\* C25: a push whose focus_id is already in the stack is rejected, and the
\* stack file then has detected set and the id appended to dependency_chain;
\* pushed again over a stack of two with an empty chain, the bottom id
\* leaves a chain of that one id and a stack of two.
C25_RejectedPushRecorded ==
    \A id \in FocusIds, create_branch \in BOOLEAN, auto_commit \in AutoCommitArgs,
       e \in PushEnv :
       DetectCircularDependency(file.focus_process_stack, id)
       => LET o == PushFocus(git, file, id, create_branch, auto_commit, e)
          IN /\ ~o.ok
             /\ o.file.detected
             /\ o.file.dependency_chain = Append(file.dependency_chain, id)
             /\ Len(o.file.focus_process_stack) = Len(file.focus_process_stack)

\* C25, amended: a push whose focus_id is already in the stack is rejected;
\* if the stack file can be written it then has detected set and the id
\* appended to dependency_chain, with the entries of the stack as they were,
\* and if it cannot the file is as it was.
C25_RejectedPushRecordedWhenWritten ==
    \A id \in FocusIds, create_branch \in BOOLEAN, auto_commit \in AutoCommitArgs,
       e \in PushEnv :
       DetectCircularDependency(file.focus_process_stack, id)
       => LET o == PushFocus(git, file, id, create_branch, auto_commit, e)
          IN /\ ~o.ok
             /\ e.saveOk
                => /\ o.file.detected
                   /\ o.file.dependency_chain = Append(file.dependency_chain, id)
                   /\ o.file.focus_process_stack = file.focus_process_stack
             /\ ~e.saveOk => o.file = file

\* over a stack of two the bottom id was pushed again: the chain holds that
\* id alone and the stack is still two deep
C25_Witness ==
    /\ Len(file.focus_process_stack) = 2
    /\ file.detected
    /\ file.dependency_chain = <<file.focus_process_stack[1].focus_id>>
    /\ file.current_focus = file.focus_process_stack[2].focus_id

\* the outcomes a call has when the stack file can be written
Written(e) == [e EXCEPT !.saveOk = TRUE]

\* after a push, pop or escape that returned True, load_focus_stack returns
\* the stack the call made
SavedWhenTrue ==
    /\ \A id \in FocusIds, create_branch \in BOOLEAN, e \in PushEnv :
          LET o == PushFocus(git, file, id, create_branch, TRUE, e)
              made == PushFocus(git, file, id, create_branch, TRUE, Written(e))
          IN o.ok => LoadFocusStack(o.file) = made.file
    /\ file.focus_process_stack # <<>>
       => /\ \A force_escape \in BOOLEAN, merge_strategy \in Strategies, e \in PopEnv :
                \A c \in Completions(git, file, force_escape, merge_strategy) :
                   LET o == PopAfterCompletion(file, c, force_escape, e)
                       made == PopAfterCompletion(file, c, force_escape, Written(e))
                   IN o.ok => LoadFocusStack(o.file) = made.file
          /\ \A reason \in EscapeReasons, escape_levels \in LevelArgs,
                e \in EscapeEnv(Len(file.focus_process_stack)) :
                LET o == EscapeBy(git, file, reason, escape_levels, e)
                    made == EscapeBy(git, file, reason, escape_levels, Written(e))
                IN o.ok => LoadFocusStack(o.file) = made.file

\* C26: after any operation that returned success (push, pop, escape,
\* auto-commit) a new manager on the same project root loads exactly the
\* stack the operation made.
C26_SuccessMeansPersisted ==
    /\ SavedWhenTrue
    /\ \A tool_name \in ToolNames, file_paths \in FilePaths, e \in AutoCommitEnv :
          LET o == AutoCommit(git, file, tool_name, file_paths, e)
              made == AutoCommit(git, file, tool_name, file_paths, Written(e))
          IN o.ok => LoadFocusStack(o.file) = made.file

\* C26, amended: after a push, pop or escape that returned success a new
\* manager loads exactly the stack the operation made; after an auto-commit
\* that returned success it loads that stack if the commit record could be
\* written, and the stack as it was before the call if it could not.
C26_SuccessMeansPersistedButForRecords ==
    /\ SavedWhenTrue
    /\ \A tool_name \in ToolNames, file_paths \in FilePaths, e \in AutoCommitEnv :
          LET o == AutoCommit(git, file, tool_name, file_paths, e)
              made == AutoCommit(git, file, tool_name, file_paths, Written(e))
          IN o.ok => LoadFocusStack(o.file) = (IF "save" \in o.events
                                               THEN file ELSE made.file)

\* a stack with a commit record, from which a push, a pop and an escape
\* return True and an auto-commit returns True without its record written
C26_Witness ==
    /\ file.focus_process_stack # <<>>
    /\ Last(file.focus_process_stack).commit_history # <<>>
    /\ \E id \in FocusIds, e \in PushEnv : PushFocus(git, file, id, FALSE, TRUE, e).ok
    /\ \E o \in PopFocus(git, file, TRUE, "auto") :
          o.ok /\ o.file.focus_process_stack = Front(file.focus_process_stack)
    /\ \E e \in EscapeEnv(Len(file.focus_process_stack)) :
          EscapeBy(git, file, "stuck", 0, e).ok

\* C27: a push with create_branch false runs no git command: the repository
\* is as it was and no branch creation is attempted.  The entry it puts on
\* the stack has no branch_name and no git_commit_before.
C27_PushWithoutBranchLeavesGit ==
    \A id \in FocusIds, auto_commit \in AutoCommitArgs, e \in PushEnv :
       LET o == PushFocus(git, file, id, FALSE, auto_commit, e)
       IN /\ o.git = git
          /\ "create" \notin o.events
          /\ o.ok
             => /\ Len(o.file.focus_process_stack) = Len(file.focus_process_stack) + 1
                /\ Last(o.file.focus_process_stack).focus_id = id
                /\ Last(o.file.focus_process_stack).branch_name = NoBranch
                /\ Last(o.file.focus_process_stack).git_commit_before = NoCommit

\* a focus without a branch is on top of one with a branch, and the
\* repository is still on the branch of the one below
C27_Witness ==
    /\ Len(file.focus_process_stack) = 2
    /\ file.focus_process_stack[2].branch_name = NoBranch
    /\ file.focus_process_stack[2].git_commit_before = NoCommit
    /\ file.focus_process_stack[1].branch_name # NoBranch
    /\ git.head = file.focus_process_stack[1].branch_name

\* C28: the completion of a focus with a branch, in a pop that is not
\* forced, gets to its merge whenever git checkout of the target is not
\* refused, whatever the stack: it does not fail at the switch to the target
\* branch.  The target is the branch of the entry under the focus when that
\* entry has one, and main when the focus is alone on the stack: a
\* completion that succeeds leaves the repository on that branch, and with
\* the merge strategy the history of that branch then holds the commits of
\* the branch of the focus.
C28_MergesIntoBranchBelow ==
    \A merge_strategy \in Strategies, e \in CompleteEnv :
       LET stack == file.focus_process_stack
           focus == Last(stack)
           under == stack[Len(stack) - 1]
           c == CompleteFocusWithMerge(git, stack, focus, merge_strategy, e)
           named == Len(stack) = 1 \/ under.branch_name # NoBranch
           into == IF Len(stack) = 1 THEN Main ELSE under.branch_name
       IN (stack # <<>> /\ focus.branch_name # NoBranch /\ e.targetOk)
          => /\ (named => BranchExists(git, into)) => "switch_target" \notin c.events
             /\ (named /\ c.ok)
                => /\ c.g.head = into
                   /\ merge_strategy = "merge"
                      => BranchHistory(git, focus.branch_name)
                           \subseteq BranchHistory(c.g, into)

\* C29: with merge_strategy auto, a completion that gets to its merge does
\* what the squash strategy does when the focus has at most 3 records in
\* commit_history, and what the merge strategy does when it has more.
C29_AutoSquashesUpToThree ==
    \A e \in CompleteEnv :
       LET stack == file.focus_process_stack
           focus == Last(stack)
           auto == CompleteFocusWithMerge(git, stack, focus, "auto", e)
           squash == CompleteFocusWithMerge(git, stack, focus, "squash", e)
           merge == CompleteFocusWithMerge(git, stack, focus, "merge", e)
       IN (stack # <<>> /\ focus.branch_name # NoBranch)
          => /\ Len(focus.commit_history) <= 3 => auto = squash
             /\ Len(focus.commit_history) > 3 => auto = merge
             /\ "switch_target" \notin auto.events
                => /\ "squash" \in auto.events <=> Len(focus.commit_history) <= 3
                   /\ "merge" \in auto.events <=> Len(focus.commit_history) > 3

\* a focus with four commit records is completed with auto by a merge
C29_Witness ==
    /\ file.focus_process_stack # <<>>
    /\ Last(file.focus_process_stack).branch_name # NoBranch
    /\ Len(Last(file.focus_process_stack).commit_history) = 4
    /\ \E e \in CompleteEnv :
          LET c == CompleteFocusWithMerge(git, file.focus_process_stack,
                                          Last(file.focus_process_stack), "auto", e)
          IN c.ok /\ "merge" \in c.events

\* C30: when a hook.run has ended, the result of that hook is ok if it
\* returned, error if it raised HookError and crash if it failed in any
\* other way, and run_all goes on with the hooks after it.
C30_OneStatusPerOutcome ==
    (batch.log # <<>> /\ Last(batch.log)[1] = "end")
    => LET name == Last(batch.log)[2]
       IN /\ batch.results[name] =
                (CASE batch.outcome = "return" -> "ok"
                   [] batch.outcome = "HookError" -> "error"
                   [] OTHER -> "crash")
          /\ batch.phase \in {"running", "returned"}
          /\ \E k \in 1..Len(batch.hooks) :
                batch.hooks[k].name = name /\ k < batch.i

\* C31: track_override_usage evaluates the logical reset conditions before
\* it counts the use, in the order: more than 24 hours since last_used, a
\* focus process completed recently, a semantic escape triggered recently,
\* the current branch is main.  A logical reset happens exactly when one of
\* the four holds: usage_count then restarts from 0 and the reason appended
\* to reset_conditions_met is that of the first one that holds; when none
\* holds the only reason the call can append is "manual_unset".
C31_FirstOfFourConditionsResets ==
    \A c \in OverrideTypes, hook_name \in TrackingHooks, e \in TrackEnvOf(file) :
       LET before == tracker.usage_data[c]
           t == TrackOverrideUsage(tracker, git, c, hook_name, e)
           after == t.usage_data[c].reset_conditions_met
           first == IF before.tracked /\ e.timeout THEN "24_hour_timeout"
                    ELSE IF CheckRecentFocusCompletion(e)
                         THEN "focus_process_completed"
                    ELSE IF CheckRecentSemanticEscape(e)
                         THEN "semantic_escape_triggered"
                    ELSE IF CheckSignificantProjectChange(git)
                         THEN "project_state_changed"
                    ELSE NoReason
       IN e.saveOk
          => IF first # NoReason
             THEN /\ after = Append(before.reset_conditions_met, first)
                  /\ t.usage_data[c].usage_count
                       = (IF IsOverrideActive(tracker, c) THEN 1 ELSE 0)
             ELSE \/ after = before.reset_conditions_met
                  \/ /\ after = Append(before.reset_conditions_met, "manual_unset")
                     /\ ~IsOverrideActive(tracker, c)
                     /\ before.usage_count > 0

\* C32: in every stack the file holds, the parent_focus of the bottom entry
\* is none and the parent_focus of every other entry is the focus_id of the
\* entry directly below it.
C32_ParentIsEntryBelow ==
    LET stack == file.focus_process_stack
    IN \A i \in 1..Len(stack) :
          stack[i].parent_focus
             = (IF i = 1 THEN NoFocus ELSE stack[i - 1].focus_id)

\* a focus pushed over another one in a stack that an escape has unwound before
C32_Witness ==
    /\ Len(file.focus_process_stack) = 2
    /\ file.focus_process_stack[2].parent_focus = file.focus_process_stack[1].focus_id
    /\ file.last_escape # NoLastEscape

\* the scores of the entries of the stack file, bottom first
Totals(reason, criteria, relevance) ==
    [ i \in 1..Len(file.focus_process_stack) |->
         TotalScore(AnalyzeEscapeCandidate(file.focus_process_stack[i], i - 1,
                                           reason, relevance[i]),
                    criteria) ]

\* C33: find_semantic_escape_target selects the stack level with the
\* highest weighted total score, the one nearest the bottom among equals.
\* When that total is below 20 it returns main with levels 0; otherwise it
\* returns the focus of that level and levels = depth minus the 0-based
\* index of the level, a number from 1 to the depth.  On an empty stack it
\* returns main with levels 0.
C33_BestTargetOrMain ==
    LET depth == Len(file.focus_process_stack)
    IN \A reason \in Reasons, criteria \in Criteria,
          relevance \in [1..depth -> Relevances] :
          LET total == Totals(reason, criteria, relevance)
              found == FindSemanticEscapeTarget(file, reason, criteria, relevance)
              top == CHOOSE i \in 1..depth :
                        /\ \A j \in 1..depth : total[j] <= total[i]
                        /\ \A j \in 1..(i - 1) : total[j] < total[i]
          IN IF depth = 0
             THEN found = [ target |-> Main, levels |-> 0 ]
             ELSE IF total[top] < 20 * 10
             THEN found = [ target |-> Main, levels |-> 0 ]
             ELSE /\ found.target = file.focus_process_stack[top].focus_id
                  /\ found.levels = depth - (top - 1)
                  /\ found.levels \in 1..depth

\* two entries of which the upper one alone has commits, two of them: it
\* is the target for a reason that names neither
C33_Witness ==
    /\ Len(file.focus_process_stack) = 2
    /\ Len(file.focus_process_stack[2].commit_history) = 2
    /\ file.focus_process_stack[1].commit_history = <<>>
    /\ FindSemanticEscapeTarget(file, {}, [ prefer_stable_commits |-> TRUE,
                                            preserve_work |-> TRUE,
                                            avoid_circular_dependencies |-> TRUE ],
                                <<10, 10>>).levels = 1

\* no two entries of the stack have the same branch_name, unless they have
\* none
NoBranchOwnedTwice ==
    LET stack == file.focus_process_stack
    IN \A i, j \in 1..Len(stack) :
          (i # j /\ stack[i].branch_name # NoBranch)
          => stack[i].branch_name # stack[j].branch_name

\* the branch_name of every entry that stays on the stack stays what it was
BranchNameKept ==
    \A i \in 1..Len(file.focus_process_stack) :
       (i <= Len(file'.focus_process_stack)
          /\ file'.focus_process_stack[i].focus_id
               = file.focus_process_stack[i].focus_id)
       => file'.focus_process_stack[i].branch_name
            = file.focus_process_stack[i].branch_name

\* C34: branch ownership.  In every state no two entries of the stack have
\* the same branch_name (unless they have none), and no operation changes
\* the branch_name of an entry it leaves on the stack.
C34_BranchOwnership ==
    []NoBranchOwnedTwice /\ [][BranchNameKept]_vars

\* C34, amended: a push gives its entry a branch_name only when no branch of
\* that name exists before the call, and the call creates the branch: an
\* entry never gets the branch_name of another entry whose branch is still
\* there.  The branch_name of an entry is the same before and after every
\* operation that leaves the entry on the stack.
C34_BranchOwnedWhileItExists ==
    [][ LET old == file.focus_process_stack
            new == file'.focus_process_stack
        IN /\ (Len(new) = Len(old) + 1 /\ Last(new).branch_name # NoBranch)
              => /\ ~BranchExists(git, Last(new).branch_name)
                 /\ BranchExists(git', Last(new).branch_name)
           /\ \A i \in 1..Len(old) :
                 (i <= Len(new) /\ new[i].focus_id = old[i].focus_id)
                 => new[i].branch_name = old[i].branch_name ]_vars

\* two entries with one branch_name: the branch of the lower one was merged
\* and deleted by a pop that could not write the stack file
C34_Witness ==
    /\ Len(file.focus_process_stack) = 2
    /\ file.focus_process_stack[1].branch_name # NoBranch
    /\ file.focus_process_stack[1].branch_name = file.focus_process_stack[2].branch_name
    /\ BranchExists(git, file.focus_process_stack[2].branch_name)

\* C35: a push that returns failure, whatever made it fail (a duplicate id,
\* a failed branch creation, a failed write of the stack file), leaves the
\* repository as it was: the same current branch and the same branches.
C35_FailedPushLeavesGit ==
    \A id \in FocusIds, create_branch \in BOOLEAN :
       \A o \in PushCall(git, file, id, create_branch, TRUE) :
          ~o.ok
          => /\ o.git.head = git.head
             /\ { b \in Branches : BranchExists(o.git, b) }
                  = { b \in Branches : BranchExists(git, b) }

\* C36: a focus id that is not on the stack, because it never was or
\* because an escape or a pop has removed its entry, can be pushed with
\* create_branch: when git and the write of the stack file do not fail for
\* reasons of their own the push returns True and the id is the current
\* focus, also when the branch of the removed entry is still there.
C36_IdReusableOnceOffStack ==
    \A id \in FocusIds :
       ~DetectCircularDependency(file.focus_process_stack, id)
       => LET o == PushFocus(git, file, id, TRUE, TRUE,
                             [ branchOk |-> TRUE, saveOk |-> TRUE ])
          IN o.ok /\ o.file.current_focus = id

\* C37: an escape that returns True moves neither the tip of main nor the
\* tip of the branch of an entry it leaves on the stack, in whatever state
\* it is called.
C37_EscapeResetsOnlyUnwoundWork ==
    \A escape_levels \in LevelArgs :
       \A o \in EscapeCall(git, file, escape_levels, FALSE, NoRecommendation) :
          o.ok
          => /\ o.git.tip[Main] = git.tip[Main]
             /\ \A i \in 1..Len(o.file.focus_process_stack) :
                   LET b == o.file.focus_process_stack[i].branch_name
                   IN b # NoBranch => o.git.tip[b] = git.tip[b]

\* C38: once the override is set and not set again, the git operations
\* guard lets at most three dangerous commands through.  Of four dangerous
\* commands in a row that start with the override set, each one let through
\* is counted by the tracker, and they are not all four let through: by the
\* fourth the override has been unset and HookError is raised.
C38_GuardAllowsAtMostThree ==
    \A e1, e2, e3, e4 \in TrackEnvOf(file) :
       LET first == HandleDangerousOperation(tracker, git, e1)
           second == HandleDangerousOperation(first.tracker, git, e2)
           third == HandleDangerousOperation(second.tracker, git, e3)
           fourth == HandleDangerousOperation(third.tracker, git, e4)
       IN CheckForOverride(tracker)
          => /\ first.allowed
             /\ first.tracker.returned # ""
             /\ ~(second.allowed /\ third.allowed /\ fourth.allowed)

\* C39: whatever the order of the loads and saves of invocations that run
\* at the same time (push, pop, escape, the record update of an
\* auto-commit), every stack the file holds has pairwise distinct focus ids
\* and a current_focus that is the focus_id of its top entry, or none when
\* it is empty.
C39_PersistedStackWellFormed ==
    LET stack == file.focus_process_stack
    IN /\ \A i, j \in 1..Len(stack) :
             i # j => stack[i].focus_id # stack[j].focus_id
       /\ file.current_focus = IF stack = <<>> THEN NoFocus
                               ELSE Last(stack).focus_id

\* a save has replaced what another process wrote in between, two entries
\* are stacked and a process holds a copy that is not the file
C39_Witness ==
    /\ calls.stale_save
    /\ Len(file.focus_process_stack) = 2
    /\ \E p \in Procs :
          /\ calls.run[p].op \in {"push", "pop", "escape", "record"}
          /\ calls.run[p].stack # file

\* the focus ids on the stack of f
IdsOn(f) == { f.focus_process_stack[i].focus_id : i \in 1..Len(f.focus_process_stack) }

\* the process p ends an invocation of op in this step
Ends(p, op) == calls.run[p].op = op /\ calls'.run[p].op = "idle"

\* C40: no update is lost between invocations that run at the same time.
\* When a push saves, the ids that other invocations have put on the stack
\* since the push loaded its copy are still on the stack; when the record
\* update of an auto-commit saves, no entry that a pop or an escape has
\* removed since the update loaded its copy is back on the stack.
C40_NoLostUpdates ==
    [][ \A p \in Procs :
           LET copy == calls.run[p].stack
           IN /\ (Ends(p, "push") /\ file' # file)
                 => (IdsOn(file) \ IdsOn(copy)) \subseteq IdsOn(file')
              /\ Ends(p, "record")
                 => (IdsOn(copy) \ IdsOn(file)) \cap IdsOn(file') = {} ]_vars

\* C40, amended: the last writer wins.  An invocation that saves replaces
\* the file by its own copy with its own change, whatever the file holds by
\* then: after a push the stack is the copy with the new entry on top (or the
\* copy, for a rejected push), after a pop the copy without its top entry,
\* after an escape a shorter prefix of the copy, after a record update the
\* copy with at most the commit_history of one entry extended.  What another
\* invocation wrote since the copy was loaded is gone.
C40_LastWriterWins ==
    [][ \A p \in Procs :
           LET copy == calls.run[p].stack.focus_process_stack
               new == file'.focus_process_stack
           IN /\ Ends(p, "push")
                 => \/ file' = file
                    \/ new = copy
                    \/ Len(new) = Len(copy) + 1 /\ Front(new) = copy
              /\ Ends(p, "pop")
                 => \/ file' = file
                    \/ copy # <<>> /\ new = Front(copy)
              /\ Ends(p, "escape")
                 => \/ file' = file
                    \/ \E k \in 0..(Len(copy) - 1) : new = SubSeq(copy, 1, k)
              /\ Ends(p, "record")
                 => \/ file' = file
                    \/ /\ Len(new) = Len(copy)
                       /\ \A i \in 1..Len(copy) :
                             [new[i] EXCEPT !.commit_history = <<>>]
                                = [copy[i] EXCEPT !.commit_history = <<>>] ]_vars

\* both processes have ended, one entry is on the stack, and a save has
\* replaced what the other process wrote in between
C40_Witness ==
    /\ calls.stale_save
    /\ \A p \in Procs : calls.run[p].op = "idle"
    /\ Len(file.focus_process_stack) = 1

====
